---------------------------- MODULE Spec2Model ----------------------------
(***************************************************************************)
(* Sendai bus map: the schedule snapshot held by the Go server, the host   *)
(* clock, and the queries that read them (Calendar Resolver, Position      *)
(* Interpolator, Vehicle Locator) together with the client-side copies     *)
(* of the same logic.                                                      *)
(*                                                                         *)
(* Strings that the code parses or compares are modelled by their          *)
(* characters: a date "YYYYMMDD" is a sequence of 8 digits, a time         *)
(* "HH:MM:SS" is the sequence of its three ":"-separated fields, each a    *)
(* sequence of digits.  Identifiers are TLA+ strings.                      *)
(***************************************************************************)
EXTENDS Integers, Sequences, FiniteSets, TLC

VARIABLES
    stopsCache,       \* stop_id -> StopInfo
    timetablesCache,  \* route_id -> trip_id -> TripInfo
    shapesCache,      \* pattern key -> ShapeData
    calendarCache,    \* service_id -> CalendarEntry
    extraCache,       \* [offices, calendar_dates]
    routesCache,      \* route_id -> RouteInfo
    now,              \* the host clock: [date |-> <<y, m, d>>, hms |-> <<h, m, s>>]
    client,           \* the browser: [timetables |-> App's data.timetables,
                      \*   currentTime |-> BusPanel's currentTime,
                      \*   selectedStopId |-> App's selectedStopId ("" for null),
                      \*   pending |-> the stops whose timetable fetch is in flight,
                      \*   zone |-> the host's time zone,
                      \*   localStorage |-> key -> the text stored under it,
                      \*   selectedTrip |-> App's selectedTrip,
                      \*   tripDetail |-> App's tripDetail,
                      \*   detailFetches |-> the selections whose trip detail
                      \*     fetch is in flight,
                      \*   busMarkers |-> the trip ids of busMarkersRef,
                      \*   busFetches |-> the selectedTrip of each updateBuses
                      \*     run whose fetch is in flight]
    request,          \* the HTTP request in flight: its four bound parameters
    op,               \* the last operation applied: [name |-> ..., args |-> <<...>>]
    ret               \* what it returned

vars == <<stopsCache, timetablesCache, shapesCache, calendarCache, extraCache,
          routesCache, now, client, request, op, ret>>

snapshot == <<stopsCache, timetablesCache, shapesCache, calendarCache,
              extraCache, routesCache>>

-----------------------------------------------------------------------------
(* Bounds of the model.                                                    *)

\* exceptions listed in extra.json
MaxExc == 2
\* the host clock's date ranges over the first MaxToday days of January 2024
MaxToday == 7
\* stop times range over 08:00:00 .. 08:00:00 + MaxTime seconds
MaxTime == 2
\* stop indices range over 0..MaxIndex
MaxIndex == 3
\* a shape has MaxCoords coordinates, or none
MaxCoords == 2

-----------------------------------------------------------------------------
(* Maps: a Go map / JS object is a function on the set of its keys.        *)

EmptyMap == <<>>

HasKey(m, k) == k \in DOMAIN m

Min(a, b) == IF a <= b THEN a ELSE b

-----------------------------------------------------------------------------
(* Dates.  The proleptic Gregorian day number of a civil date, 0 being     *)
(* 1970-01-01 (what time.Parse(...).Unix() / 86400 and Date.UTC(...) /     *)
(* 86400000 give).                                                         *)

DaysFromCivil(date) ==
    LET y   == IF date[2] <= 2 THEN date[1] - 1 ELSE date[1]
        era == y \div 400
        yoe == y - era * 400
        mp  == IF date[2] > 2 THEN date[2] - 3 ELSE date[2] + 9
        doy == (153 * mp + 2) \div 5 + date[3] - 1
        doe == yoe * 365 + yoe \div 4 - yoe \div 100 + doy
    IN  era * 146097 + doe - 719468

\* time.Weekday / Date.getDay: 0 = Sunday .. 6 = Saturday (1970-01-01: Thursday)
Weekday(date) == (DaysFromCivil(date) + 4) % 7

\* now.Format("20060102"); getFullYear() + padStart(month) + padStart(day)
FormatYmd(date) ==
    << date[1] \div 1000, (date[1] \div 100) % 10, (date[1] \div 10) % 10,
       date[1] % 10, date[2] \div 10, date[2] % 10, date[3] \div 10, date[3] % 10 >>

\* time.Parse("20060102", s); Number(s.slice(0,4)), Number(s.slice(4,6)), ...
ParseYmd(s) ==
    << s[1] * 1000 + s[2] * 100 + s[3] * 10 + s[4], s[5] * 10 + s[6],
       s[7] * 10 + s[8] >>

\* Go's and JavaScript's <= on strings: the order of the first differing
\* character, a proper prefix being smaller.
StrLeq(a, b) ==
    LET n    == Min(Len(a), Len(b))
        diff == {i \in 1..n : a[i] # b[i]}
    IN  IF diff = {} THEN Len(a) <= Len(b)
        ELSE LET i == CHOOSE j \in diff : \A k \in diff : j <= k
             IN  a[i] < b[i]

-----------------------------------------------------------------------------
(* Calendar Resolver.                                                      *)

\* the first exception of calendar_dates for (serviceID, ymd); 0 when none
FindException(dates, ymd, serviceID) ==
    LET hit == {i \in 1..Len(dates) :
                    dates[i].date = ymd /\ dates[i].service_id = serviceID}
    IN  IF hit = {} THEN 0
        ELSE CHOOSE i \in hit : \A j \in hit : i <= j

ExceptionAdds_TypeTwo(exception) == exception.exception_type = "2"

\* return exception.ExceptionType == "1"
ExceptionAdds(exception) == exception.exception_type = "1"

GtfsDayIdx_Sunday0(weekday) == weekday

\* GTFS order: Monday = 0 .. Sunday = 6
GtfsDayIdx(weekday) == (weekday + 6) % 7

InRange_ExclusiveEnd(ymd, cal) == StrLeq(cal.start, ymd) /\ ~StrLeq(cal.end, ymd)

\* ymd >= cal.Start && ymd <= cal.End
InRange(ymd, cal) == StrLeq(cal.start, ymd) /\ StrLeq(ymd, cal.end)

\* cal.Days[gtfsDayIdx] == "1" (behind the guard gtfsDayIdx < len(cal.Days));
\* cal.days[gtfsDayIdx] === "1", undefined for a missing flag
DayFlag(cal, gtfsDayIdx) ==
    gtfsDayIdx < Len(cal.days) /\ cal.days[gtfsDayIdx + 1] = "1"

LongLived_MoreThan20(cal) ==
    LET startDate == DaysFromCivil(ParseYmd(cal.start)) * 86400
        endDate   == DaysFromCivil(ParseYmd(cal.end)) * 86400
    IN  (endDate - startDate) > 20 * 24 * 3600

\* endDate.Sub(startDate).Hours() / 24 >= 20, the dates parsed as UTC midnights
LongLived(cal) ==
    LET startDate == DaysFromCivil(ParseYmd(cal.start)) * 86400
        endDate   == DaysFromCivil(ParseYmd(cal.end)) * 86400
    IN  (endDate - startDate) >= 20 * 24 * 3600

\* The zones of the browser's host: one of fixed offset, one with daylight
\* saving time.
HostZones == {"Asia/Tokyo", "America/New_York"}

\* the zone's offset from UTC, in seconds, at the local midnight of a date.
\* New York's clocks are an hour ahead from 2024-03-10 02:00 to 2024-11-03
\* 02:00 (the midnights of 11 March to 3 November); other years' daylight
\* saving time is left out.
UtcOffset(zone, date) ==
    IF zone = "Asia/Tokyo" THEN 9 * 3600
    ELSE IF /\ DaysFromCivil(date) > DaysFromCivil(<<2024, 3, 10>>)
            /\ DaysFromCivil(date) <= DaysFromCivil(<<2024, 11, 3>>)
         THEN -4 * 3600
         ELSE -5 * 3600

\* The client builds both dates as local midnights (new Date(y, m - 1, d)) of
\* the host's zone and divides the difference of their getTime() by the
\* milliseconds of a day.  Times are counted in seconds here, a millisecond
\* count exceeding 2^31.
LocalMidnight(date) == DaysFromCivil(date) * 86400 - UtcOffset(client.zone, date)

LongLivedClient(cal) ==
    LET startDate == LocalMidnight(ParseYmd(cal.start))
        endDate   == LocalMidnight(ParseYmd(cal.end))
    IN  (endDate - startDate) >= 20 * (60 * 60 * 24)

isServiceRunningToday_CalendarFirst(serviceID) ==
    LET ymd == FormatYmd(now.date)
        hit == FindException(extraCache.calendar_dates, ymd, serviceID)
        gtfsDayIdx == GtfsDayIdx(Weekday(now.date))
    IN  IF HasKey(calendarCache, serviceID)
             /\ InRange(ymd, calendarCache[serviceID])
        THEN DayFlag(calendarCache[serviceID], gtfsDayIdx)
        ELSE hit # 0 /\ ExceptionAdds(extraCache.calendar_dates[hit])

isServiceRunningToday_NoEntryRuns(serviceID) ==
    LET ymd == FormatYmd(now.date)
        hit == FindException(extraCache.calendar_dates, ymd, serviceID)
        gtfsDayIdx == GtfsDayIdx(Weekday(now.date))
    IN  IF hit # 0 THEN ExceptionAdds(extraCache.calendar_dates[hit])
        ELSE IF ~HasKey(calendarCache, serviceID) THEN TRUE
        ELSE LET cal == calendarCache[serviceID]
             IN  IF InRange(ymd, cal) /\ gtfsDayIdx < Len(cal.days)
                 THEN DayFlag(cal, gtfsDayIdx)
                 ELSE LongLived(cal) /\ DayFlag(cal, gtfsDayIdx)

\* The server's resolver (Go): reads the clock and the two caches.
isServiceRunningToday(serviceID) ==
    LET ymd == FormatYmd(now.date)
        hit == FindException(extraCache.calendar_dates, ymd, serviceID)
        gtfsDayIdx == GtfsDayIdx(Weekday(now.date))
    IN  IF hit # 0 THEN ExceptionAdds(extraCache.calendar_dates[hit])
        ELSE IF ~HasKey(calendarCache, serviceID) THEN FALSE
        ELSE LET cal == calendarCache[serviceID]
             IN  IF InRange(ymd, cal) /\ gtfsDayIdx < Len(cal.days)
                 THEN DayFlag(cal, gtfsDayIdx)
                 ELSE LongLived(cal) /\ DayFlag(cal, gtfsDayIdx)

\* The client's resolver (TypeScript): the tables are its arguments.
isServiceRunningTodayClient(serviceId, calendarData, extraData) ==
    LET ymd == FormatYmd(now.date)
        hit == FindException(extraData.calendar_dates, ymd, serviceId)
        gtfsDayIdx == GtfsDayIdx(Weekday(now.date))
    IN  IF hit # 0 THEN ExceptionAdds(extraData.calendar_dates[hit])
        ELSE IF ~HasKey(calendarData, serviceId) THEN FALSE
        ELSE LET cal == calendarData[serviceId]
             IN  IF InRange(ymd, cal) THEN DayFlag(cal, gtfsDayIdx)
                 ELSE LongLivedClient(cal) /\ DayFlag(cal, gtfsDayIdx)

-----------------------------------------------------------------------------
(* The calendar inputs the Calendar Resolver is applied to.                *)

Services == {"s1", "s2"}

\* the weekly patterns: no day or one day on, every day on, Monday to Friday on
DayPatterns ==
    {p \in [1..7 -> {"0", "1"}] :
        \/ Cardinality({i \in 1..7 : p[i] = "1"}) <= 1
        \/ p = <<"1", "1", "1", "1", "1", "1", "1">>
        \/ p = <<"1", "1", "1", "1", "1", "0", "0">>}

\* <<start, end>>: 4 days around the clock's week; exactly 20 days; 19 days;
\* 11 days across a year's end; a month already over; end before start
CalendarSpans ==
    { <<FormatYmd(<<2024, 1, 1>>),   FormatYmd(<<2024, 1, 5>>)>>,
      <<FormatYmd(<<2024, 1, 3>>),   FormatYmd(<<2024, 1, 23>>)>>,
      <<FormatYmd(<<2024, 1, 3>>),   FormatYmd(<<2024, 1, 22>>)>>,
      <<FormatYmd(<<2023, 12, 25>>), FormatYmd(<<2024, 1, 5>>)>>,
      <<FormatYmd(<<2023, 12, 1>>),  FormatYmd(<<2023, 12, 31>>)>>,
      <<FormatYmd(<<2024, 1, 5>>),   FormatYmd(<<2024, 1, 1>>)>> }

CalendarEntries ==
    {[days |-> p, start |-> se[1], end |-> se[2]] :
        p \in DayPatterns, se \in CalendarSpans}

\* "s2" never has a calendar entry
CalendarTables ==
    {EmptyMap} \cup {[s \in {"s1"} |-> e] : e \in CalendarEntries}

TodayDates == {<<2024, 1, d>> : d \in 1..MaxToday}

\* exceptions on Wednesday 2024-01-03
CalendarDateExceptions ==
    {[service_id |-> s, date |-> FormatYmd(<<2024, 1, 3>>), exception_type |-> t] :
        s \in Services, t \in {"1", "2"}}

SeqsUpTo(S, n) == UNION {[1..k -> S] : k \in 0..n}

ExceptionLists == SeqsUpTo(CalendarDateExceptions, MaxExc)

Midnight == <<0, 0, 0>>

NoOp == [name |-> "load", args |-> <<>>]

\* JavaScript's null
Null == [kind |-> "null"]

\* at mount App's data.timetables is {}, its selectedStopId, selectedTrip and
\* tripDetail are null, BusPanel's currentTime is "" and busMarkersRef is {}
FreshClient ==
    [timetables |-> EmptyMap, currentTime |-> <<>>, selectedStopId |-> "",
     pending |-> {}, zone |-> "Asia/Tokyo", localStorage |-> EmptyMap,
     selectedTrip |-> Null, tripDetail |-> Null, detailFetches |-> <<>>,
     busMarkers |-> {}, busFetches |-> {}]

\* a request without query parameters: c.Query gives "" for each
NoQuery == [minLat |-> <<>>, maxLat |-> <<>>, minLng |-> <<>>, maxLng |-> <<>>]

-----------------------------------------------------------------------------
(* Specification of the Calendar Resolver: the snapshot's calendar and     *)
(* exceptions and the clock's date are drawn at load; the server and the   *)
(* client then ask whether a service runs today.                           *)

InitCalendar ==
    /\ stopsCache = EmptyMap
    /\ timetablesCache = EmptyMap
    /\ shapesCache = EmptyMap
    /\ routesCache = EmptyMap
    /\ calendarCache \in CalendarTables
    /\ \E dates \in ExceptionLists :
          extraCache = [offices |-> EmptyMap, calendar_dates |-> dates]
    /\ \E d \in TodayDates : now = [date |-> d, hms |-> Midnight]
    /\ client = FreshClient
    /\ request = NoQuery
    /\ op = NoOp
    /\ ret = FALSE

ServerIsServiceRunning ==
    \E serviceID \in Services :
        /\ op' = [name |-> "isServiceRunningToday", args |-> <<serviceID>>]
        /\ ret' = isServiceRunningToday(serviceID)
        /\ UNCHANGED <<snapshot, now, client, request>>

ClientIsServiceRunning ==
    \E serviceId \in Services :
        /\ op' = [name |-> "isServiceRunningTodayClient", args |-> <<serviceId>>]
        /\ ret' = isServiceRunningTodayClient(serviceId, calendarCache, extraCache)
        /\ UNCHANGED <<snapshot, now, client, request>>

NextCalendar == ServerIsServiceRunning \/ ClientIsServiceRunning

SpecCalendar == InitCalendar /\ [][NextCalendar]_vars

-----------------------------------------------------------------------------
(* Properties of the Calendar Resolver.                                    *)

ResolverCalled == op.name \in {"isServiceRunningToday", "isServiceRunningTodayClient"}

AskedService == op.args[1]

Today == FormatYmd(now.date)

\* the exceptions listed for the asked service on the clock's date
ExceptionsToday ==
    {i \in 1..Len(extraCache.calendar_dates) :
        /\ extraCache.calendar_dates[i].service_id = AskedService
        /\ extraCache.calendar_dates[i].date = Today}

\* the one the lookup finds: the first listed
ExceptionFound ==
    extraCache.calendar_dates[CHOOSE i \in ExceptionsToday :
                                 \A j \in ExceptionsToday : i <= j]

AskedEntry == calendarCache[AskedService]

\* dates as day numbers, for the properties' own arithmetic
DayNumber(s) == DaysFromCivil(ParseYmd(s))

WithinBounds == DayNumber(AskedEntry.start) <= DayNumber(Today)
                /\ DayNumber(Today) <= DayNumber(AskedEntry.end)

\* the flag of the clock's weekday, the flags being listed Monday first
WeekdayName == <<"Sun", "Mon", "Tue", "Wed", "Thu", "Fri", "Sat">>[Weekday(now.date) + 1]

FlagOf(entry, day) ==
    CASE day = "Mon" -> entry.days[1] = "1"
      [] day = "Tue" -> entry.days[2] = "1"
      [] day = "Wed" -> entry.days[3] = "1"
      [] day = "Thu" -> entry.days[4] = "1"
      [] day = "Fri" -> entry.days[5] = "1"
      [] day = "Sat" -> entry.days[6] = "1"
      [] day = "Sun" -> entry.days[7] = "1"

\* C1: when an exception is listed for the asked service on the clock's date,
\* the resolver (server and client) answers TRUE exactly when the exception
\* found has type "1", whatever the weekly flags, the date bounds, and whether
\* or not the service has a calendar entry.
C1_ExceptionDecides ==
    (ResolverCalled /\ ExceptionsToday # {})
        => (ret = (ExceptionFound.exception_type = "1"))

\* a type "1" exception turns on a service whose Wednesday flag is "0" and
\* whose calendar ended before the clock's date
C1_Witness ==
    /\ op.name = "isServiceRunningToday"
    /\ ExceptionsToday # {}
    /\ ExceptionFound.exception_type = "1"
    /\ HasKey(calendarCache, AskedService)
    /\ AskedEntry.days[3] = "0"
    /\ ~WithinBounds
    /\ ret = TRUE

\* C2: with no exception, a calendar entry of 7 flags and start <= date <= end,
\* the resolver answers the flag at index (weekday + 6) mod 7, weekday counted
\* from Sunday = 0: the flag of the clock's weekday in Monday-first order.
C2_InRangeWeekdayFlag ==
    (/\ ResolverCalled
     /\ ExceptionsToday = {}
     /\ HasKey(calendarCache, AskedService)
     /\ Len(AskedEntry.days) = 7
     /\ WithinBounds)
        => /\ ret = FlagOf(AskedEntry, WeekdayName)
           /\ ret = (AskedEntry.days[((Weekday(now.date) + 6) % 7) + 1] = "1")

\* the scenario: {20240101, 20240105, 1111100} on Wednesday 20240103
C2_Witness ==
    /\ op.name = "isServiceRunningToday"
    /\ ExceptionsToday = {}
    /\ HasKey(calendarCache, AskedService)
    /\ AskedEntry = [days |-> <<"1", "1", "1", "1", "1", "0", "0">>,
                     start |-> <<2, 0, 2, 4, 0, 1, 0, 1>>,
                     end |-> <<2, 0, 2, 4, 0, 1, 0, 5>>]
    /\ now.date = <<2024, 1, 3>>
    /\ WeekdayName = "Wed"
    /\ ret = TRUE

SpanDays == DayNumber(AskedEntry.end) - DayNumber(AskedEntry.start)

-----------------------------------------------------------------------------
(* Times of day.                                                           *)

RECURSIVE Atoi(_)
\* strconv.Atoi / Number on a field of digits
Atoi(field) ==
    IF Len(field) = 0 THEN 0
    ELSE Atoi(SubSeq(field, 1, Len(field) - 1)) * 10 + field[Len(field)]

\* "HH:MM:SS" split at ":" -> seconds; 0 when fewer than two fields
timeToSec(t) ==
    IF Len(t) < 2 THEN 0
    ELSE Atoi(t[1]) * 3600 + Atoi(t[2]) * 60 + (IF Len(t) >= 3 THEN Atoi(t[3]) ELSE 0)

\* now.Hour()*3600 + now.Minute()*60 + now.Second()
NowSec == now.hms[1] * 3600 + now.hms[2] * 60 + now.hms[3]

-----------------------------------------------------------------------------
(* Geometry Index and Position Interpolator.                               *)

RECURSIVE Join(_, _)
\* strings.Join(ids, sep) / ids.join(sep)
Join(ids, sep) ==
    IF Len(ids) = 0 THEN ""
    ELSE IF Len(ids) = 1 THEN ids[1]
    ELSE ids[1] \o sep \o Join(Tail(ids), sep)

PatternKey_WithTimes(stops) ==
    Join([i \in 1..Len(stops) |->
             stops[i].stop_id \o "@" \o ToString(timeToSec(stops[i].time))], "|")

\* the pattern key of a stop list
PatternKey(stops) == Join([i \in 1..Len(stops) |-> stops[i].stop_id], "|")

None == [kind |-> "none"]
Panic == [kind |-> "panic"]
Undefined == [kind |-> "undefined"]
\* timeRatio taken over a span of zero seconds: (nowSec - s1) / (s2 - s1) with
\* s2 = s1
DivisionByZero == [kind |-> "division by zero"]

InInterval_NoEnd(nowSec, s1, s2) == nowSec >= s1

InInterval_ClosedEnd(nowSec, s1, s2) == nowSec >= s1 /\ nowSec <= s2

InInterval_OpenStart(nowSec, s1, s2) == nowSec > s1 /\ nowSec <= s2

\* nowSec >= s1 && nowSec < s2
InInterval(nowSec, s1, s2) == nowSec >= s1 /\ nowSec < s2

\* the first i (1-based) of the loop whose pair of stops contains nowSec; 0 when none
FindInterval(stops, nowSec) ==
    LET hit == {i \in 1..(Len(stops) - 1) :
                  InInterval(nowSec, timeToSec(stops[i].time), timeToSec(stops[i + 1].time))}
    IN  IF hit = {} THEN 0
        ELSE CHOOSE i \in hit : \A j \in hit : i <= j

TargetIndex_Ceil(from, to, elapsed, span) ==
    from + (((to - from) * elapsed + span - 1) \div span)

TargetIndex_Backward(from, to, elapsed, span) ==
    from + (((to - from) * (span - elapsed)) \div span)

\* floor(from + (to - from) * timeRatio), timeRatio = elapsed / span, span > 0;
\* the quotient is taken exactly (the code's is a float64)
TargetIndex(from, to, elapsed, span) ==
    from + (((to - from) * elapsed) \div span)

ClampIndex_Off(targetIndex, length) == targetIndex

\* if targetIndex >= len(coords) { targetIndex = len(coords) - 1 }; Math.min
ClampIndex(targetIndex, length) ==
    IF targetIndex >= length THEN length - 1 ELSE targetIndex

\* The server's interpolator (Go).  A slice read outside its bounds panics.
calculateBusPosition(trip, nowSec, patternKey) ==
    IF \/ ~HasKey(shapesCache, patternKey)
       \/ Len(shapesCache[patternKey].coordinates) = 0
       \/ Len(shapesCache[patternKey].stop_indices) = 0
    THEN None
    ELSE LET stops   == trip.stops
             coords  == shapesCache[patternKey].coordinates
             indices == shapesCache[patternKey].stop_indices
             i       == FindInterval(stops, nowSec)
         IN  IF i = 0 THEN None
             ELSE IF i + 1 > Len(indices) THEN Panic
             ELSE IF timeToSec(stops[i + 1].time) = timeToSec(stops[i].time)
             THEN DivisionByZero
             ELSE LET s1 == timeToSec(stops[i].time)
                      s2 == timeToSec(stops[i + 1].time)
                      targetIndex ==
                          ClampIndex(TargetIndex(indices[i], indices[i + 1],
                                                 nowSec - s1, s2 - s1),
                                     Len(coords))
                  IN  IF targetIndex < 0 \/ targetIndex >= Len(coords) THEN Panic
                      ELSE [kind |-> "pos", index |-> targetIndex,
                            position |-> coords[targetIndex + 1]]

\* The client's interpolator (TypeScript).  An empty array is truthy; an array
\* read outside its bounds, or at NaN, gives undefined.
calculateBusPos(trip, nowSec, shapesData) ==
    LET patternKey == PatternKey(trip.stops)
    IN  IF ~HasKey(shapesData, patternKey) THEN None
        ELSE LET stops   == trip.stops
                 coords  == shapesData[patternKey].coordinates
                 indices == shapesData[patternKey].stop_indices
                 i       == FindInterval(stops, nowSec)
             IN  IF i = 0 THEN None
                 ELSE IF i + 1 > Len(indices) THEN Undefined
                 ELSE IF timeToSec(stops[i + 1].time) = timeToSec(stops[i].time)
                 THEN DivisionByZero
                 ELSE LET s1 == timeToSec(stops[i].time)
                          s2 == timeToSec(stops[i + 1].time)
                          targetIndex ==
                              ClampIndex(TargetIndex(indices[i], indices[i + 1],
                                                     nowSec - s1, s2 - s1),
                                         Len(coords))
                      IN  IF targetIndex < 0 \/ targetIndex >= Len(coords)
                          THEN Undefined
                          ELSE [kind |-> "pos", index |-> targetIndex,
                                position |-> coords[targetIndex + 1]]

-----------------------------------------------------------------------------
(* The trips and shapes the Position Interpolator is applied to.           *)

Pad2(n) == <<n \div 10, n % 10>>

\* the string "HH:MM:SS"
TimeString(h, m, sec) == <<Pad2(h), Pad2(m), Pad2(sec)>>

StopIds == <<"A", "B", "C">>

TripOf(service, times) ==
    [headsign |-> "Sendai", service_id |-> service, office_id |-> "o1", via |-> "",
     stops |-> [i \in 1..Len(times) |-> [time |-> times[i], stop_id |-> StopIds[i]]]]

\* trips of 2 or 3 stops A, B(, C) with non-decreasing times 08:00:00 + 0..MaxTime s
PoolTrips ==
    {TripOf("s1", [i \in 1..Len(t) |-> TimeString(8, 0, t[i])]) :
        t \in {u \in [1..2 -> 0..MaxTime] \cup [1..3 -> 0..MaxTime] :
                  \A i \in 1..(Len(u) - 1) : u[i] <= u[i + 1]}}

\* the scenario: A at 08:00:00, B at 08:10:00
ScenarioTrip == TripOf("s1", <<TimeString(8, 0, 0), TimeString(8, 10, 0)>>)

\* coordinates [lng, lat], in hundredths of a degree, one per index 0..n-1
CoordinatesOf(n) == [k \in 1..n |-> <<14080 + k, 3820 + k>>]

\* shapes for a pattern of n stops: MaxCoords coordinates or none, and no stop
\* index, one index short, or one index per stop
PoolShapes(n) ==
    {[coordinates |-> CoordinatesOf(c), stop_indices |-> ix] :
        c \in {0, MaxCoords},
        ix \in [1..0 -> 0..MaxIndex] \cup [1..(n - 1) -> 0..MaxIndex]
                 \cup [1..n -> 0..MaxIndex]}

\* the scenario: 11 coordinates, A at index 0, B at index 10
ScenarioShape == [coordinates |-> CoordinatesOf(11), stop_indices |-> <<0, 10>>]

\* the times the interpolator is probed at: each stop's time, the second
\* before and after it, and the middle of each pair of stops
ProbeTimes(trip) ==
    {timeToSec(trip.stops[i].time) + d : i \in 1..Len(trip.stops), d \in {-1, 0, 1}}
    \cup {(timeToSec(trip.stops[i].time) + timeToSec(trip.stops[i + 1].time)) \div 2 :
             i \in 1..(Len(trip.stops) - 1)}

OneTrip(trip) == [r \in {"r1"} |-> [t \in {"t1"} |-> trip]]

OneShape(trip, shape) == [k \in {PatternKey(trip.stops)} |-> shape]

-----------------------------------------------------------------------------
(* Specification of the Position Interpolator: one trip, the shape of its  *)
(* pattern (or none) and the clock's time of day are drawn at load; the    *)
(* server and the client then interpolate the trip's position.             *)

\* the clock reading of a second of the day
ClockAt(sec) == <<sec \div 3600, (sec % 3600) \div 60, sec % 60>>

InitInterpolator ==
    /\ stopsCache = EmptyMap
    /\ routesCache = EmptyMap
    /\ calendarCache = EmptyMap
    /\ extraCache = [offices |-> EmptyMap, calendar_dates |-> <<>>]
    /\ \/ \E trip \in PoolTrips :
             /\ timetablesCache = OneTrip(trip)
             /\ \/ shapesCache = EmptyMap
                \/ \E shape \in PoolShapes(Len(trip.stops)) :
                      shapesCache = OneShape(trip, shape)
       \/ /\ timetablesCache = OneTrip(ScenarioTrip)
          /\ shapesCache = OneShape(ScenarioTrip, ScenarioShape)
    /\ \E sec \in ProbeTimes(timetablesCache["r1"]["t1"]) :
          now = [date |-> <<2024, 1, 3>>, hms |-> ClockAt(sec)]
    /\ client = FreshClient
    /\ request = NoQuery
    /\ op = NoOp
    /\ ret = FALSE

ServerCalculateBusPosition ==
    \E routeID \in DOMAIN timetablesCache :
      \E tripID \in DOMAIN timetablesCache[routeID] :
        LET trip == timetablesCache[routeID][tripID]
        IN  /\ op' = [name |-> "calculateBusPosition",
                      args |-> <<routeID, tripID, NowSec>>]
            /\ ret' = calculateBusPosition(trip, NowSec, PatternKey(trip.stops))
            /\ UNCHANGED <<snapshot, now, client, request>>

ClientCalculateBusPos ==
    \E routeID \in DOMAIN timetablesCache :
      \E tripID \in DOMAIN timetablesCache[routeID] :
        LET trip == timetablesCache[routeID][tripID]
        IN  /\ op' = [name |-> "calculateBusPos",
                      args |-> <<routeID, tripID, NowSec>>]
            /\ ret' = calculateBusPos(trip, NowSec, shapesCache)
            /\ UNCHANGED <<snapshot, now, client, request>>

NextInterpolator == ServerCalculateBusPosition \/ ClientCalculateBusPos

SpecInterpolator == InitInterpolator /\ [][NextInterpolator]_vars

-----------------------------------------------------------------------------
(* Properties of the Position Interpolator.                                *)

InterpolatorCalled == op.name \in {"calculateBusPosition", "calculateBusPos"}

CalledTrip == timetablesCache[op.args[1]][op.args[2]]

CalledAt == op.args[3]

CalledStops == CalledTrip.stops

StopSec(k) == timeToSec(CalledStops[k].time)

NonDecreasing(seq) == \A i \in 1..(Len(seq) - 1) : seq[i] <= seq[i + 1]

TimesNonDecreasing == \A i \in 1..(Len(CalledStops) - 1) : StopSec(i) <= StopSec(i + 1)

ShapePresent == HasKey(shapesCache, PatternKey(CalledStops))

CalledShape == shapesCache[PatternKey(CalledStops)]

\* the same call at another time of day
ResultAt(nowSec) ==
    IF op.name = "calculateBusPosition"
    THEN calculateBusPosition(CalledTrip, nowSec, PatternKey(CalledStops))
    ELSE calculateBusPos(CalledTrip, nowSec, shapesCache)

\* C5: for a trip with non-decreasing stop times and any shape, the interpolator
\* returns none at every time before the first stop's and at or after the last
\* stop's.
C5_NoneOutsideTrip ==
    (/\ InterpolatorCalled
     /\ TimesNonDecreasing
     /\ \/ CalledAt < StopSec(1)
        \/ CalledAt >= StopSec(Len(CalledStops)))
        => ret = None

\* at the last stop's time none is returned although a second earlier the trip
\* had a position
C5_Witness ==
    /\ op.name = "calculateBusPosition"
    /\ CalledAt = StopSec(Len(CalledStops))
    /\ ResultAt(CalledAt - 1).kind = "pos"
    /\ ret = None

\* C6: for a trip with non-decreasing stop times and a shape with non-decreasing
\* stop indices, the coordinate index returned does not decrease as the time of
\* day grows, within a pair of stops and from one pair to the next.
C6_IndexMonotone ==
    (/\ InterpolatorCalled
     /\ TimesNonDecreasing
     /\ ret.kind = "pos"
     /\ NonDecreasing(CalledShape.stop_indices))
        => \A later \in ProbeTimes(CalledTrip) :
              (later >= CalledAt /\ ResultAt(later).kind = "pos")
                  => ret.index <= ResultAt(later).index

\* a position between A and B, and a later one, further along, between B and C
C6_Witness ==
    /\ op.name = "calculateBusPosition"
    /\ TimesNonDecreasing
    /\ ret.kind = "pos"
    /\ NonDecreasing(CalledShape.stop_indices)
    /\ FindInterval(CalledStops, CalledAt) = 1
    /\ \E later \in ProbeTimes(CalledTrip) :
          /\ later > CalledAt
          /\ FindInterval(CalledStops, later) = 2
          /\ ResultAt(later).kind = "pos"
          /\ ResultAt(later).index > ret.index

\* the first pair of consecutive stops (s_i, s_i+1) with s_i <= now < s_i+1
PairsAround == {i \in 1..(Len(CalledStops) - 1) :
                   StopSec(i) <= CalledAt /\ CalledAt < StopSec(i + 1)}

FirstPair == CHOOSE i \in PairsAround : \A j \in PairsAround : i <= j

\* the shape of the called trip is stored, has coordinates, and has a stop index
\* for the stops up to k
ShapeCovers(k) ==
    /\ ShapePresent
    /\ Len(CalledShape.coordinates) > 0
    /\ Len(CalledShape.stop_indices) >= k

\* q = floor(from + (to - from) * elapsed / span), said without division
IsFloorOfRatio(q, from, to, elapsed, span) ==
    /\ q * span <= from * span + (to - from) * elapsed
    /\ from * span + (to - from) * elapsed < (q + 1) * span

\* q is the index the linear map gives for the called time in pair i
IsLinearIndex(q, i) ==
    IsFloorOfRatio(q, CalledShape.stop_indices[i], CalledShape.stop_indices[i + 1],
                   CalledAt - StopSec(i), StopSec(i + 1) - StopSec(i))

LastIndex == Len(CalledShape.coordinates) - 1

HighestStopIndex ==
    CHOOSE m \in {CalledShape.stop_indices[i] : i \in 1..Len(CalledShape.stop_indices)} :
        \A i \in 1..Len(CalledShape.stop_indices) : CalledShape.stop_indices[i] <= m

C8_IndexWithinCoordinates ==
    (/\ InterpolatorCalled
     /\ ShapeCovers(Len(CalledStops))
     /\ Len(CalledShape.stop_indices) = Len(CalledStops))
        => /\ ret.kind \in {"none", "pos"}
           /\ ret.kind = "pos" =>
                 /\ 0 <= ret.index
                 /\ ret.index <= LastIndex
                 /\ ret.position = CalledShape.coordinates[ret.index + 1]

\* the linear map gives an index beyond the coordinates; the last one is read
C8_Witness ==
    /\ op.name = "calculateBusPosition"
    /\ ShapeCovers(Len(CalledStops))
    /\ Len(CalledShape.stop_indices) = Len(CalledStops)
    /\ PairsAround # {}
    /\ \E q \in 0..MaxIndex : IsLinearIndex(q, FirstPair) /\ q > LastIndex
    /\ ret.kind = "pos"
    /\ ret.index = LastIndex

\* the intermediate stops (neither first nor last) whose time is the called time
IntermediateStopsNow ==
    {k \in 2..(Len(CalledStops) - 1) : StopSec(k) = CalledAt}

\* C9 as stated: at the time of an intermediate stop k the result is the
\* coordinate at stop k's own stop index; at the last stop's time it is none.
C9_AtStopTimeAsStated ==
    (/\ InterpolatorCalled
     /\ TimesNonDecreasing
     /\ ShapeCovers(Len(CalledStops)))
        => /\ \A k \in IntermediateStopsNow :
                 /\ ret.kind = "pos"
                 /\ ret.index = CalledShape.stop_indices[k]
           /\ CalledAt = StopSec(Len(CalledStops)) => ret = None

\* C9 amended: at the time of an intermediate stop k whose next stop is
\* strictly later, the pair starting at k is used and the result is the
\* coordinate at stop k's stop index, or the last coordinate when that index
\* lies beyond it; at the last stop's time the result is none.
C9_AtStopTime ==
    (/\ InterpolatorCalled
     /\ TimesNonDecreasing
     /\ ShapeCovers(Len(CalledStops)))
        => /\ \A k \in IntermediateStopsNow :
                 StopSec(k) < StopSec(k + 1) =>
                     /\ FindInterval(CalledStops, CalledAt) = k
                     /\ ret.kind = "pos"
                     /\ ret.index = Min(CalledShape.stop_indices[k], LastIndex)
           /\ CalledAt = StopSec(Len(CalledStops)) => ret = None

\* at the time of stop B, strictly between A's and C's: B's own index
C9_Witness ==
    /\ op.name = "calculateBusPosition"
    /\ ShapeCovers(Len(CalledStops))
    /\ Len(CalledStops) = 3
    /\ StopSec(1) < StopSec(2)
    /\ StopSec(2) < StopSec(3)
    /\ CalledAt = StopSec(2)
    /\ CalledShape.stop_indices[1] # CalledShape.stop_indices[2]
    /\ ret.kind = "pos"
    /\ ret.index = CalledShape.stop_indices[2]

-----------------------------------------------------------------------------
(* Vehicle Locator (server) and the stop timetable of the panel (client).  *)

\* routesCache[routeID]: the zero RouteInfo when the route is missing
RouteInfoOf(routeID) ==
    IF HasKey(routesCache, routeID) THEN routesCache[routeID]
    ELSE [short_name |-> "", color |-> ""]

VisitTrip_NoServiceCheck(routeID, tripID, nowSec) ==
    LET trip  == timetablesCache[routeID][tripID]
        stops == trip.stops
    IN  IF Len(stops) < 2 THEN None
        ELSE LET startSec == timeToSec(stops[1].time)
                 endSec   == timeToSec(stops[Len(stops)].time)
             IN  IF ~(nowSec >= startSec /\ nowSec <= endSec) THEN None
                 ELSE LET pos == calculateBusPosition(trip, nowSec, PatternKey(stops))
                      IN  IF pos.kind # "pos" THEN pos
                          ELSE [kind |-> "bus",
                                bus  |-> [trip_id    |-> tripID,
                                          route_id   |-> routeID,
                                          route_name |-> RouteInfoOf(routeID).short_name,
                                          headsign   |-> trip.headsign,
                                          position   |-> pos.position,
                                          color      |-> RouteInfoOf(routeID).color]]

\* The body of calculateAllBusPositions' loop for one trip: None when the
\* trip is skipped, the BusPosition to append, or Panic.
VisitTrip(routeID, tripID, nowSec) ==
    LET trip  == timetablesCache[routeID][tripID]
        stops == trip.stops
    IN  IF ~isServiceRunningToday(trip.service_id) THEN None
        ELSE IF Len(stops) < 2 THEN None
        ELSE LET startSec == timeToSec(stops[1].time)
                 endSec   == timeToSec(stops[Len(stops)].time)
             IN  IF ~(nowSec >= startSec /\ nowSec <= endSec) THEN None
                 ELSE LET pos == calculateBusPosition(trip, nowSec, PatternKey(stops))
                      IN  IF pos.kind # "pos" THEN pos
                          ELSE [kind |-> "bus",
                                bus  |-> [trip_id    |-> tripID,
                                          route_id   |-> routeID,
                                          route_name |-> RouteInfoOf(routeID).short_name,
                                          headsign   |-> trip.headsign,
                                          position   |-> pos.position,
                                          color      |-> RouteInfoOf(routeID).color]]

RECURSIVE AppendPositions(_, _, _)
\* the loop of calculateAllBusPositions over the trips in the order visited
AppendPositions(result, order, nowSec) ==
    IF Len(order) = 0 THEN [kind |-> "list", items |-> result]
    ELSE LET visit == VisitTrip(order[1][1], order[1][2], nowSec)
         IN  IF visit.kind = "panic" THEN Panic
             ELSE AppendPositions(IF visit.kind = "bus"
                                  THEN Append(result, visit.bus) ELSE result,
                                  Tail(order), nowSec)

\* calculateAllBusPositions; order is the order in which the two range loops
\* visit the trips of timetablesCache
calculateAllBusPositions(order) == AppendPositions(<<>>, order, NowSec)

\* the <<route id, trip id>> pairs of a timetable
TripPairs(timetables) ==
    UNION {{<<r, t>> : t \in DOMAIN timetables[r]} : r \in DOMAIN timetables}

\* the orders in which nested loops over routes and their trips can visit a
\* timetable: every pair once, the trips of a route one after the other
IterationOrders(timetables) ==
    LET pairs == TripPairs(timetables)
        n     == Cardinality(pairs)
    IN  {o \in [1..n -> pairs] :
            /\ \A i, j \in 1..n : o[i] = o[j] => i = j
            /\ \A i, j, k \in 1..n :
                  (i < j /\ j < k /\ o[i][1] = o[k][1]) => o[j][1] = o[i][1]}

RECURSIVE CodeUnits(_)
\* the UTF-16 code units of a time string: fields of digits joined by ":"
CodeUnits(t) ==
    IF Len(t) = 0 THEN <<>>
    ELSE LET digits == [i \in 1..Len(t[1]) |-> 48 + t[1][i]]
         IN  IF Len(t) = 1 THEN digits
             ELSE digits \o <<58>> \o CodeUnits(Tail(t))

StrLess_OrEqual(a, b) == StrLeq(CodeUnits(a), CodeUnits(b))

\* JavaScript's a < b on strings
StrLess(a, b) == ~StrLeq(CodeUnits(b), CodeUnits(a))

\* the collation key of a time string: ":" sorts before every digit
CollationKey(t) ==
    LET units == CodeUnits(t)
    IN  [i \in 1..Len(units) |-> IF units[i] = 58 THEN 0 ELSE units[i] - 47]

\* a.localeCompare(b) < 0
LocaleLess(a, b) == ~StrLeq(CollationKey(b), CollationKey(a))

FindStop_Last(stops, targetIds) ==
    LET hits == {i \in 1..Len(stops) : stops[i].stop_id \in targetIds}
    IN  IF hits = {} THEN 0 ELSE CHOOSE i \in hits : \A j \in hits : i >= j

\* trip.stops.find(s => targetIds.includes(s.stop_id)): the first such stop's
\* position, 0 when there is none
FindStop(stops, targetIds) ==
    LET hits == {i \in 1..Len(stops) : stops[i].stop_id \in targetIds}
    IN  IF hits = {} THEN 0 ELSE CHOOSE i \in hits : \A j \in hits : i <= j

RECURSIVE CollectArrivals(_, _, _, _)
\* the two forEach loops of the stop timetable over the trips in key order
CollectArrivals(data, keyOrder, targetIds, currentTime) ==
    IF Len(keyOrder) = 0 THEN <<>>
    ELSE LET n    == Len(keyOrder)
             rid  == keyOrder[n][1]
             tid  == keyOrder[n][2]
             trip == data.timetables[rid][tid]
             before == CollectArrivals(data, SubSeq(keyOrder, 1, n - 1),
                                       targetIds, currentTime)
             k    == FindStop(trip.stops, targetIds)
         IN  IF ~isServiceRunningTodayClient(trip.service_id, data.calendar, data.extra)
             THEN before
             ELSE IF k = 0 THEN before
             ELSE LET st == trip.stops[k]
                  IN  Append(before,
                             [time     |-> st.time,
                              route_id |-> rid,
                              trip_id  |-> tid,
                              headsign |-> trip.headsign,
                              via      |-> trip.via,
                              platform |-> IF HasKey(data.stops, st.stop_id)
                                           THEN data.stops[st.stop_id].platform
                                           ELSE "",
                              actual_stop_id |-> st.stop_id,
                              is_past  |-> StrLess(st.time, currentTime)])

InsertByTime_AtEnd(sorted, a) == Append(sorted, a)

\* one step of a stable sort: the arrival goes before the first later one
InsertByTime(sorted, a) ==
    LET later == {i \in 1..Len(sorted) : LocaleLess(a.time, sorted[i].time)}
        at    == IF later = {} THEN Len(sorted) + 1
                 ELSE CHOOSE i \in later : \A j \in later : i <= j
    IN  SubSeq(sorted, 1, at - 1) \o <<a>> \o SubSeq(sorted, at, Len(sorted))

RECURSIVE SortByTime(_)
\* allArrivals.sort((a, b) => a.time.localeCompare(b.time)), a stable sort
SortByTime(arrivals) ==
    IF Len(arrivals) = 0 THEN <<>>
    ELSE InsertByTime(SortByTime(SubSeq(arrivals, 1, Len(arrivals) - 1)),
                      arrivals[Len(arrivals)])

\* panelData in stop-timetable mode; zoom is in tenths of a zoom level and
\* keyOrder is the key order of data.timetables
panelData(data, keyOrder, selectedStopId, zoom, currentTime) ==
    IF ~HasKey(data.stops, selectedStopId)
    THEN [title |-> <<>>, arrivals |-> <<>>]
    ELSE LET stop      == data.stops[selectedStopId]
             isGrouped == zoom < 165
             targetIds == IF isGrouped
                          THEN {id \in DOMAIN data.stops : data.stops[id].name = stop.name}
                          ELSE {selectedStopId}
         IN  [title    |-> IF ~isGrouped /\ stop.platform # ""
                           THEN <<stop.name, stop.platform>> ELSE <<stop.name>>,
              arrivals |-> SortByTime(CollectArrivals(data, keyOrder, targetIds,
                                                      currentTime))]

-----------------------------------------------------------------------------
(* Specification of the Vehicle Locator and the stop timetable: a snapshot *)
(* of two routes with one trip each is drawn at load; the server lists the *)
(* vehicle positions, the client lists the arrivals at a selected stop,    *)
(* and both ask whether a service runs today.                              *)

\* A and B are two poles of one stop name
LocatorStops ==
    [id \in {"A", "B", "C"} |->
        [name     |-> IF id = "C" THEN "Park" ELSE "Central",
         yomi     |-> "",
         lat      |-> 3826,
         lng      |-> 14087,
         platform |-> IF id = "A" THEN "1" ELSE IF id = "B" THEN "2" ELSE ""]]

\* route "r2" has no RouteInfo
LocatorRoutes == [r \in {"r1"} |-> [short_name |-> "10", color |-> "ff0000"]]

\* trips of two and three stops, the first stop at 08:00:00 and the last one
\* two seconds later, and a trip of one stop
LocatorTrips ==
    {TripOf(s, times) :
        s \in Services,
        times \in {<<TimeString(8, 0, 0), TimeString(8, 0, 2)>>,
                   <<TimeString(8, 0, 0), TimeString(8, 0, 1), TimeString(8, 0, 2)>>}}
    \cup {TripOf("s2", <<TimeString(8, 0, 0)>>)}

LocatorTimetables ==
    {[r \in {"r1", "r2"} |-> IF r = "r1" THEN [t \in {"t1"} |-> a]
                             ELSE [t \in {"t2"} |-> b]] :
        a \in LocatorTrips,
        b \in {c \in LocatorTrips : Len(c.stops) = 2}}

\* the shape of pattern A|B is absent, whole, without coordinates, or without
\* stop indices; the shape of pattern A|B|C is whole, or one stop index short
\* (what the builder writes when stop C is missing from its stop table)
LocatorShapes ==
    LET ab  == {[coordinates |-> CoordinatesOf(3), stop_indices |-> <<0, 2>>],
                [coordinates |-> CoordinatesOf(0), stop_indices |-> <<0, 2>>],
                [coordinates |-> CoordinatesOf(3), stop_indices |-> <<>>]}
        abc == {[coordinates |-> CoordinatesOf(3), stop_indices |-> <<0, 1, 2>>],
                [coordinates |-> CoordinatesOf(3), stop_indices |-> <<0, 1>>]}
    IN  {[k \in {"A|B|C"} |-> y] : y \in abc}
        \cup {[k \in {"A|B", "A|B|C"} |-> IF k = "A|B" THEN x ELSE y] :
                 x \in ab, y \in abc}

\* "s2" runs all week; "s1" has no entry, runs all week, or runs on no day
LocatorCalendars ==
    LET week(flag) == [days  |-> [i \in 1..7 |-> flag],
                       start |-> FormatYmd(<<2024, 1, 1>>),
                       end   |-> FormatYmd(<<2024, 1, 7>>)]
    IN  {[s \in {"s2"} |-> week("1")]}
        \cup {[s \in Services |-> IF s = "s2" THEN week("1") ELSE week(flag)] :
                 flag \in {"0", "1"}}

\* no exception, or one for "s1" on the clock's date
LocatorExceptions ==
    {<<>>} \cup
    {<<[service_id |-> "s1", date |-> FormatYmd(<<2024, 1, 3>>),
        exception_type |-> t]>> : t \in {"1", "2"}}

\* the second before the trips start, and each second they last
LocatorClocks == {<<7, 59, 59>>, <<8, 0, 0>>, <<8, 0, 1>>, <<8, 0, 2>>}

\* new Date().toTimeString().split(" ")[0]
ClockString == TimeString(now.hms[1], now.hms[2], now.hms[3])

\* App's data: the stops, calendar, routes and extra fetched from the server,
\* and the trips merged in so far
ClientData ==
    [stops |-> stopsCache, timetables |-> client.timetables, shapes |-> shapesCache,
     calendar |-> calendarCache, routes |-> routesCache, extra |-> extraCache]

\* the client has merged every trip, its timer has ticked and a stop is
\* selected
InitLocator ==
    /\ stopsCache = LocatorStops
    /\ routesCache = LocatorRoutes
    /\ timetablesCache \in LocatorTimetables
    /\ shapesCache \in LocatorShapes
    /\ calendarCache \in LocatorCalendars
    /\ \E dates \in LocatorExceptions :
          extraCache = [offices |-> EmptyMap, calendar_dates |-> dates]
    /\ \E hms \in LocatorClocks : now = [date |-> <<2024, 1, 3>>, hms |-> hms]
    /\ \E selectedStopId \in {"A", "C"} :
          client = [FreshClient EXCEPT !.timetables = timetablesCache,
                                       !.currentTime = ClockString,
                                       !.selectedStopId = selectedStopId]
    /\ request = NoQuery
    /\ op = NoOp
    /\ ret = FALSE

ServerCalculateAllBusPositions ==
    \E order \in IterationOrders(timetablesCache) :
        /\ op' = [name |-> "calculateAllBusPositions", args |-> <<NowSec>>]
        /\ ret' = calculateAllBusPositions(order)
        /\ UNCHANGED <<snapshot, now, client, request>>

ClientPanelData ==
    \E zoom \in {150, 170} :
      \E keyOrder \in IterationOrders(ClientData.timetables) :
        /\ op' = [name |-> "panelData",
                  args |-> <<client.selectedStopId, zoom, client.currentTime>>]
        /\ ret' = panelData(ClientData, keyOrder, client.selectedStopId, zoom,
                            client.currentTime)
        /\ UNCHANGED <<snapshot, now, client, request>>

NextLocator ==
    \/ ServerCalculateAllBusPositions
    \/ ClientPanelData
    \/ ServerIsServiceRunning
    \/ ClientIsServiceRunning

SpecLocator == InitLocator /\ [][NextLocator]_vars

-----------------------------------------------------------------------------
(* Properties of the Vehicle Locator and the stop timetable.               *)

LocatorCalled == op.name = "calculateAllBusPositions" /\ ret.kind = "list"

PanelCalled == op.name = "panelData"

\* the trip a listed vehicle position or arrival names
TripNamed(item) == timetablesCache[item.route_id][item.trip_id]

\* the service has no exception on the clock's date and no calendar entry
Unscheduled(serviceID) ==
    /\ \A i \in 1..Len(extraCache.calendar_dates) :
          ~(/\ extraCache.calendar_dates[i].service_id = serviceID
            /\ extraCache.calendar_dates[i].date = FormatYmd(now.date))
    /\ serviceID \notin DOMAIN calendarCache

\* the clock is within the trip's first and last stop times
InWindow(trip) ==
    /\ timeToSec(trip.stops[1].time) <= NowSec
    /\ NowSec <= timeToSec(trip.stops[Len(trip.stops)].time)

\* a shape with coordinates and stop indices is stored under the trip's key
HasGeometry(trip) ==
    /\ PatternKey(trip.stops) \in DOMAIN shapesCache
    /\ Len(shapesCache[PatternKey(trip.stops)].coordinates) > 0
    /\ Len(shapesCache[PatternKey(trip.stops)].stop_indices) > 0

Listed(routeID, tripID) ==
    \E i \in 1..Len(ret.items) :
        ret.items[i].route_id = routeID /\ ret.items[i].trip_id = tripID

\* C4: the resolver answers false, and does not fail, for a service that has
\* neither an exception on the clock's date nor a calendar entry; no listed
\* vehicle position and no listed arrival belongs to a trip of such a service.
C4_UnscheduledExcluded ==
    /\ (ResolverCalled /\ Unscheduled(AskedService)) => ret = FALSE
    /\ LocatorCalled =>
          \A i \in 1..Len(ret.items) :
              ~Unscheduled(TripNamed(ret.items[i]).service_id)
    /\ PanelCalled =>
          \A i \in 1..Len(ret.arrivals) :
              ~Unscheduled(TripNamed(ret.arrivals[i]).service_id)

\* the locator lists the vehicle of "s2" and leaves out a trip of the
\* unscheduled "s1" that is under way on a whole shape
C4_Witness ==
    /\ LocatorCalled
    /\ Len(ret.items) = 1
    /\ Unscheduled(timetablesCache["r1"]["t1"].service_id)
    /\ Len(timetablesCache["r1"]["t1"].stops) >= 2
    /\ InWindow(timetablesCache["r1"]["t1"])
    /\ HasGeometry(timetablesCache["r1"]["t1"])
    /\ NowSec < timeToSec(timetablesCache["r1"]["t1"].stops[
                             Len(timetablesCache["r1"]["t1"].stops)].time)
    /\ ~Listed("r1", "t1")
    /\ Listed("r2", "t2")

\* C10: every vehicle position the locator lists belongs to a trip (a) whose
\* service runs today, (b) of at least 2 stops, (c) with the clock within
\* its first and last stop times, and (d) with a shape stored under its
\* pattern key that has coordinates and stop indices.
C10_ListedTripsAreActive ==
    LocatorCalled =>
        \A i \in 1..Len(ret.items) :
            LET trip == TripNamed(ret.items[i])
            IN  /\ isServiceRunningToday(trip.service_id)
                /\ Len(trip.stops) >= 2
                /\ InWindow(trip)
                /\ HasGeometry(trip)

\* the locator lists one vehicle and leaves out a running trip under way
\* whose shape is absent
C10_Witness ==
    /\ LocatorCalled
    /\ Len(ret.items) = 1
    /\ Listed("r1", "t1")
    /\ isServiceRunningToday(timetablesCache["r2"]["t2"].service_id)
    /\ InWindow(timetablesCache["r2"]["t2"])
    /\ PatternKey(timetablesCache["r2"]["t2"].stops) \notin DOMAIN shapesCache
    /\ ~Listed("r2", "t2")

\* the interpolator gives the trip a position at the clock's time
Interpolated(trip) ==
    calculateBusPosition(trip, NowSec, PatternKey(trip.stops)).kind = "pos"

\* the trip's service runs today, it has at least 2 stops and a position
Locatable(trip) ==
    /\ isServiceRunningToday(trip.service_id)
    /\ Len(trip.stops) >= 2
    /\ Interpolated(trip)

\* the vehicle position the locator is to list for a trip
PositionOf(routeID, tripID) ==
    LET trip == timetablesCache[routeID][tripID]
    IN  [trip_id    |-> tripID,
         route_id   |-> routeID,
         route_name |-> IF routeID \in DOMAIN routesCache
                        THEN routesCache[routeID].short_name ELSE "",
         headsign   |-> trip.headsign,
         position   |-> calculateBusPosition(trip, NowSec,
                                             PatternKey(trip.stops)).position,
         color      |-> IF routeID \in DOMAIN routesCache
                        THEN routesCache[routeID].color ELSE ""]

\* how many listed items name the trip
TimesListed(routeID, tripID) ==
    Cardinality({i \in 1..Len(ret.items) :
                    ret.items[i].route_id = routeID /\ ret.items[i].trip_id = tripID})

\* C11: the locator without bounds lists exactly one vehicle position for
\* every trip whose service runs today, that has at least 2 stops and that the
\* interpolator gives a position, carrying the trip's id, route id, route
\* short name, headsign, route color and that position; no trip is listed
\* twice.
C11_OnePositionPerLocatableTrip ==
    op.name = "calculateAllBusPositions" =>
        \A pair \in TripPairs(timetablesCache) :
            IF Locatable(timetablesCache[pair[1]][pair[2]])
            THEN /\ ret.kind = "list"
                 /\ TimesListed(pair[1], pair[2]) = 1
                 /\ \E i \in 1..Len(ret.items) :
                       ret.items[i] = PositionOf(pair[1], pair[2])
            ELSE ret.kind = "list" => TimesListed(pair[1], pair[2]) <= 1

\* C11, for the calls that return: the same, whenever the locator returns a
\* list rather than failing.
C11_OnePositionPerLocatableTripListed ==
    LocatorCalled =>
        \A pair \in TripPairs(timetablesCache) :
            IF Locatable(timetablesCache[pair[1]][pair[2]])
            THEN /\ TimesListed(pair[1], pair[2]) = 1
                 /\ \E i \in 1..Len(ret.items) :
                       ret.items[i] = PositionOf(pair[1], pair[2])
            ELSE TimesListed(pair[1], pair[2]) <= 1

\* both trips are locatable and both are listed once
C11_Witness ==
    /\ LocatorCalled
    /\ Len(ret.items) = 2
    /\ \A pair \in TripPairs(timetablesCache) :
          /\ Locatable(timetablesCache[pair[1]][pair[2]])
          /\ TimesListed(pair[1], pair[2]) = 1

-----------------------------------------------------------------------------
(* The server's endpoints.  A query parameter is the sequence of its       *)
(* characters; latitudes and longitudes are in hundredths of a degree.     *)

DecimalDigits == <<"0", "1", "2", "3", "4", "5", "6", "7", "8", "9">>

IsDigit(c) == \E i \in 1..Len(DecimalDigits) : DecimalDigits[i] = c

DigitValue(c) == (CHOOSE i \in 1..Len(DecimalDigits) : DecimalDigits[i] = c) - 1

\* strconv.ParseFloat(s, 64) on the parameters of the request pool: digits,
\* optionally followed by "." and one or two digits, give the number (in
\* hundredths); a text with any other character gives an error
ParseFloat(s) ==
    LET dots == {i \in 1..Len(s) : s[i] = "."}
        dot  == IF dots = {} THEN Len(s) + 1 ELSE CHOOSE i \in dots : TRUE
        ok   == /\ Len(s) > 0
                /\ \A i \in 1..Len(s) : IsDigit(s[i]) \/ s[i] = "."
                /\ Cardinality(dots) <= 1
                /\ dot > 1
                /\ dots # {} => Len(s) - dot \in 1..2
        whole == Atoi([i \in 1..(dot - 1) |-> DigitValue(s[i])])
        frac  == [i \in 1..(Len(s) - dot) |-> DigitValue(s[dot + i])]
    IN  IF ~ok THEN [err |-> TRUE, value |-> 0]
        ELSE [err |-> FALSE,
              value |-> whole * 100
                        + (IF Len(frac) = 1 THEN Atoi(frac) * 10 ELSE Atoi(frac))]

StopInBounds_Exclusive(stop, minLat, maxLat, minLng, maxLng) ==
    /\ stop.lat > minLat /\ stop.lat < maxLat
    /\ stop.lng > minLng /\ stop.lng < maxLng

\* stop.Lat >= minLat && stop.Lat <= maxLat && stop.Lng >= minLng && ...
StopInBounds(stop, minLat, maxLat, minLng, maxLng) ==
    /\ stop.lat >= minLat /\ stop.lat <= maxLat
    /\ stop.lng >= minLng /\ stop.lng <= maxLng

filterStopsByBounds(minLat, maxLat, minLng, maxLng) ==
    [stopID \in {id \in DOMAIN stopsCache :
                    StopInBounds(stopsCache[id], minLat, maxLat, minLng, maxLng)}
        |-> stopsCache[stopID]]

BadRequest(message) == [status |-> 400, error |-> message]

NotFound(message) == [status |-> 404, error |-> message]

\* gin's recovery middleware answers a panicking handler with 500
InternalServerError == [status |-> 500]

\* GET /api/stops/search
GetStopsSearch(query) ==
    IF \/ Len(query.minLat) = 0 \/ Len(query.maxLat) = 0
       \/ Len(query.minLng) = 0 \/ Len(query.maxLng) = 0
    THEN BadRequest("required")
    ELSE LET minLat == ParseFloat(query.minLat)
             maxLat == ParseFloat(query.maxLat)
             minLng == ParseFloat(query.minLng)
             maxLng == ParseFloat(query.maxLng)
         IN  IF minLat.err \/ maxLat.err \/ minLng.err \/ maxLng.err
             THEN BadRequest("not numeric")
             ELSE IF minLat.value > maxLat.value \/ minLng.value > maxLng.value
             THEN BadRequest("min > max")
             ELSE LET filteredStops ==
                          filterStopsByBounds(minLat.value, maxLat.value,
                                              minLng.value, maxLng.value)
                  IN  [status |-> 200,
                       count  |-> Cardinality(DOMAIN filteredStops),
                       stops  |-> filteredStops]

PositionInBounds_Exclusive(pos, minLat, maxLat, minLng, maxLng) ==
    /\ pos[2] > minLat /\ pos[2] < maxLat
    /\ pos[1] > minLng /\ pos[1] < maxLng

\* lat := pos[1]; lng := pos[0]; lat >= minLat && lat <= maxLat && ...
PositionInBounds(pos, minLat, maxLat, minLng, maxLng) ==
    /\ pos[2] >= minLat /\ pos[2] <= maxLat
    /\ pos[1] >= minLng /\ pos[1] <= maxLng

\* The body of calculateBusPositionsInBounds' loop for one trip.
VisitTripInBounds(routeID, tripID, nowSec, bounds) ==
    LET trip  == timetablesCache[routeID][tripID]
        stops == trip.stops
    IN  IF ~isServiceRunningToday(trip.service_id) THEN None
        ELSE IF Len(stops) < 2 THEN None
        ELSE LET startSec == timeToSec(stops[1].time)
                 endSec   == timeToSec(stops[Len(stops)].time)
             IN  IF ~(nowSec >= startSec /\ nowSec <= endSec) THEN None
                 ELSE LET pos == calculateBusPosition(trip, nowSec, PatternKey(stops))
                      IN  IF pos.kind = "panic" THEN Panic
                          ELSE IF pos.kind # "pos" \/ Len(pos.position) < 2 THEN None
                          ELSE IF ~PositionInBounds(pos.position, bounds[1], bounds[2],
                                                    bounds[3], bounds[4])
                          THEN None
                          ELSE [kind |-> "bus",
                                bus  |-> [trip_id    |-> tripID,
                                          route_id   |-> routeID,
                                          route_name |-> RouteInfoOf(routeID).short_name,
                                          headsign   |-> trip.headsign,
                                          position   |-> pos.position,
                                          color      |-> RouteInfoOf(routeID).color]]

RECURSIVE AppendPositionsInBounds(_, _, _, _)
AppendPositionsInBounds(result, order, nowSec, bounds) ==
    IF Len(order) = 0 THEN [kind |-> "list", items |-> result]
    ELSE LET visit == VisitTripInBounds(order[1][1], order[1][2], nowSec, bounds)
         IN  IF visit.kind = "panic" THEN Panic
             ELSE AppendPositionsInBounds(IF visit.kind = "bus"
                                          THEN Append(result, visit.bus) ELSE result,
                                          Tail(order), nowSec, bounds)

\* calculateBusPositionsInBounds; order is the order the range loops visit
calculateBusPositionsInBounds(order, minLat, maxLat, minLng, maxLng) ==
    AppendPositionsInBounds(<<>>, order, NowSec, <<minLat, maxLat, minLng, maxLng>>)

\* time.Now().Unix()
UnixNow ==
    DaysFromCivil(now.date) * 86400 - UtcOffset("Asia/Tokyo", now.date) + NowSec

BusesResponse(buses) ==
    IF buses.kind = "panic" THEN InternalServerError
    ELSE [status |-> 200, count |-> Len(buses.items), buses |-> buses.items,
          timestamp |-> UnixNow]

\* GET /api/buses
GetBuses(query, order) ==
    IF /\ Len(query.minLat) # 0 /\ Len(query.maxLat) # 0
       /\ Len(query.minLng) # 0 /\ Len(query.maxLng) # 0
    THEN LET minLat == ParseFloat(query.minLat)
             maxLat == ParseFloat(query.maxLat)
             minLng == ParseFloat(query.minLng)
             maxLng == ParseFloat(query.maxLng)
         IN  IF minLat.err \/ maxLat.err \/ minLng.err \/ maxLng.err
             THEN BadRequest("not numeric")
             ELSE IF minLat.value > maxLat.value \/ minLng.value > maxLng.value
             THEN BadRequest("min > max")
             ELSE BusesResponse(calculateBusPositionsInBounds(
                                    order, minLat.value, maxLat.value,
                                    minLng.value, maxLng.value))
    ELSE BusesResponse(calculateAllBusPositions(order))

\* stopsCache[ts.StopID] for every stop of the trip that exists in the table
TripStops(trip) ==
    [id \in {trip.stops[i].stop_id : i \in 1..Len(trip.stops)} \cap DOMAIN stopsCache
        |-> stopsCache[id]]

\* shape := shapesCache[patternKey]; Shape: &shape.  The pointer is never
\* nil; a missing key gives the zero ShapeData, whose slices are nil.
ShapePointer(patternKey) ==
    IF HasKey(shapesCache, patternKey)
    THEN [null |-> FALSE,
          coordinates  |-> shapesCache[patternKey].coordinates,
          stop_indices |-> shapesCache[patternKey].stop_indices]
    ELSE [null |-> FALSE, coordinates |-> <<>>, stop_indices |-> <<>>]

TripDetailResponse(routeID, tripID, trip) ==
    [status      |-> 200,
     trip_id     |-> tripID,
     route_id    |-> routeID,
     route_name  |-> RouteInfoOf(routeID).short_name,
     route_color |-> RouteInfoOf(routeID).color,
     trip        |-> trip,
     stops       |-> TripStops(trip),
     shape       |-> ShapePointer(PatternKey(trip.stops)),
     office_name |-> IF HasKey(extraCache.offices, trip.office_id)
                     THEN extraCache.offices[trip.office_id] ELSE ""]

\* the zero TripInfo
ZeroTrip == [headsign |-> "", service_id |-> "", office_id |-> "", via |-> "",
             stops |-> <<>>]

GetTripDetail_ZeroTrip(routeID, tripID) ==
    IF ~HasKey(timetablesCache, routeID) THEN NotFound("route")
    ELSE IF ~HasKey(timetablesCache[routeID], tripID)
    THEN TripDetailResponse(routeID, tripID, ZeroTrip)
    ELSE TripDetailResponse(routeID, tripID, timetablesCache[routeID][tripID])

\* GET /api/trips/:routeId/:tripId
GetTripDetail(routeID, tripID) ==
    IF ~HasKey(timetablesCache, routeID) THEN NotFound("route")
    ELSE IF ~HasKey(timetablesCache[routeID], tripID) THEN NotFound("trip")
    ELSE TripDetailResponse(routeID, tripID, timetablesCache[routeID][tripID])

-----------------------------------------------------------------------------
(* Specification of the endpoints: a snapshot and a request's bound        *)
(* parameters are drawn at load; the server answers the stop search, the   *)
(* vehicle listing and the trip detail.                                    *)

\* three stops a hundredth of a degree apart; trips also name a stop "C"
\* that the stop table does not hold
EndpointStops ==
    [id \in {"A", "B", "D"} |->
        [name     |-> IF id = "D" THEN "Depot" ELSE "Central",
         yomi     |-> "",
         lat      |-> IF id = "A" THEN 3821 ELSE IF id = "B" THEN 3822 ELSE 3823,
         lng      |-> IF id = "A" THEN 14081 ELSE IF id = "B" THEN 14082 ELSE 14083,
         platform |-> ""]]

\* r1/t1 calls at A, B, C from 08:00:00, r2/t2 at A, B from 07:59:59
EndpointTimetables ==
    [r \in {"r1", "r2"} |->
        IF r = "r1"
        THEN [t \in {"t1"} |->
                 TripOf("s2", <<TimeString(8, 0, 0), TimeString(8, 0, 1),
                                TimeString(8, 0, 2)>>)]
        ELSE [t \in {"t2"} |->
                 TripOf("s2", <<TimeString(7, 59, 59), TimeString(8, 0, 1)>>)]]

EndpointClocks == {<<8, 0, 0>>, <<8, 0, 1>>}

\* a latitude parameter: absent, not a number, 38.21 or 38.22
LatitudeTexts ==
    {<<>>, <<"x">>, <<"3", "8", ".", "2", "1">>, <<"3", "8", ".", "2", "2">>}

\* a longitude parameter: absent, 140.81 or 140.82
LongitudeTexts ==
    {<<>>, <<"1", "4", "0", ".", "8", "1">>, <<"1", "4", "0", ".", "8", "2">>}

Queries ==
    [minLat : LatitudeTexts, maxLat : LatitudeTexts,
     minLng : LongitudeTexts, maxLng : LongitudeTexts]

InitEndpoints ==
    /\ stopsCache = EndpointStops
    /\ routesCache = LocatorRoutes
    /\ timetablesCache = EndpointTimetables
    /\ shapesCache \in LocatorShapes
    /\ calendarCache \in {c \in LocatorCalendars : DOMAIN c = {"s2"}}
    /\ extraCache = [offices |-> [o \in {"o1"} |-> "Kasuminome"],
                     calendar_dates |-> <<>>]
    /\ \E hms \in EndpointClocks : now = [date |-> <<2024, 1, 3>>, hms |-> hms]
    /\ client = FreshClient
    /\ request \in Queries
    /\ op = NoOp
    /\ ret = FALSE

ServerGetStopsSearch ==
    /\ op' = [name |-> "GET /api/stops/search", args |-> <<>>]
    /\ ret' = GetStopsSearch(request)
    /\ UNCHANGED <<snapshot, now, client, request>>

ServerGetBuses ==
    \E order \in IterationOrders(timetablesCache) :
        /\ op' = [name |-> "GET /api/buses", args |-> <<>>]
        /\ ret' = GetBuses(request, order)
        /\ UNCHANGED <<snapshot, now, client, request>>

ServerGetTripDetail ==
    \E routeID \in {"r1", "r2", "r9"}, tripID \in {"t1", "t2"} :
        /\ op' = [name |-> "GET /api/trips", args |-> <<routeID, tripID>>]
        /\ ret' = GetTripDetail(routeID, tripID)
        /\ UNCHANGED <<snapshot, now, client, request>>

NextEndpoints == ServerGetStopsSearch \/ ServerGetBuses \/ ServerGetTripDetail

SpecEndpoints == InitEndpoints /\ [][NextEndpoints]_vars

-----------------------------------------------------------------------------
(* Properties of the endpoints.                                            *)

BusesCalled == op.name = "GET /api/buses"

\* the request carries four numbers
FourNumbers ==
    /\ ~ParseFloat(request.minLat).err /\ ~ParseFloat(request.maxLat).err
    /\ ~ParseFloat(request.minLng).err /\ ~ParseFloat(request.maxLng).err

MinLat == ParseFloat(request.minLat).value
MaxLat == ParseFloat(request.maxLat).value
MinLng == ParseFloat(request.minLng).value
MaxLng == ParseFloat(request.maxLng).value

\* what the locator without bounds returns on this snapshot at this instant
Unbounded ==
    calculateAllBusPositions(CHOOSE order \in IterationOrders(timetablesCache) : TRUE)

Elements(seq) == {seq[i] : i \in 1..Len(seq)}

\* the unbounded locator's positions with latitude (position[1]) and
\* longitude (position[0]) within the request's bounds, ends included
UnboundedWithin ==
    {p \in Elements(Unbounded.items) :
        /\ MinLat <= p.position[2] /\ p.position[2] <= MaxLat
        /\ MinLng <= p.position[1] /\ p.position[1] <= MaxLng}

\* C12: for bounds with minLat <= maxLat and minLng <= maxLng, the set of
\* positions the bounded locator returns is the set the unbounded locator
\* returns on the same snapshot and instant, restricted to the positions
\* within the bounds (ends included); the one fails exactly when the other does.
C12_BoundedIsUnboundedRestricted ==
    (BusesCalled /\ FourNumbers /\ MinLat <= MaxLat /\ MinLng <= MaxLng) =>
        IF Unbounded.kind = "panic" THEN ret.status = 500
        ELSE /\ ret.status = 200
             /\ Elements(ret.buses) = UnboundedWithin

\* the bounds keep one of the two vehicles under way
C12_Witness ==
    /\ BusesCalled /\ FourNumbers /\ MinLat <= MaxLat /\ MinLng <= MaxLng
    /\ Unbounded.kind = "list"
    /\ Len(Unbounded.items) = 2
    /\ ret.status = 200
    /\ Len(ret.buses) = 1
    /\ ret.buses[1].position[2] = MaxLat

-----------------------------------------------------------------------------
(* The stop timetable: the server's endpoint and the client's fetch,       *)
(* merge and render of it.                                                 *)

\* the trip calls at the stop
CallsAt(trip, stopID) == \E i \in 1..Len(trip.stops) : trip.stops[i].stop_id = stopID

GetStopTimetable_EveryRoute(stopID) ==
    IF ~HasKey(stopsCache, stopID) THEN NotFound("stop")
    ELSE [status     |-> 200,
          stop_id    |-> stopID,
          stop_name  |-> stopsCache[stopID].name,
          timetables |->
              [r \in DOMAIN timetablesCache |->
                  [t \in {u \in DOMAIN timetablesCache[r] :
                             CallsAt(timetablesCache[r][u], stopID)}
                      |-> timetablesCache[r][t]]]]

\* GET /api/stops/:stopId/timetable
GetStopTimetable(stopID) ==
    IF ~HasKey(stopsCache, stopID) THEN NotFound("stop")
    ELSE LET routes == {r \in DOMAIN timetablesCache :
                           \E t \in DOMAIN timetablesCache[r] :
                               CallsAt(timetablesCache[r][t], stopID)}
         IN  [status     |-> 200,
              stop_id    |-> stopID,
              stop_name  |-> stopsCache[stopID].name,
              timetables |->
                  [r \in routes |->
                      [t \in {u \in DOMAIN timetablesCache[r] :
                                 CallsAt(timetablesCache[r][u], stopID)}
                          |-> timetablesCache[r][t]]]]

\* { ...prev, ...next }: the keys of next replace those of prev
Spread(prev, next) ==
    [k \in DOMAIN prev \cup DOMAIN next |->
        IF k \in DOMAIN next THEN next[k] ELSE prev[k]]

\* a trip calling at the given stops at the given times
TripVia(service, stopIds, times) ==
    [headsign |-> "Sendai", service_id |-> service, office_id |-> "o1", via |-> "",
     stops |-> [i \in 1..Len(times) |-> [time |-> times[i], stop_id |-> stopIds[i]]]]

\* r1/t1 calls at both poles of "Central"; r2/t2 calls at pole B only and
\* reaches C after midnight or at 09:00:00; r1/t3 leaves C at 09:00:00
PanelTimetables ==
    {[r \in {"r1", "r2"} |->
         IF r = "r1"
         THEN [t \in {"t1", "t3"} |->
                  IF t = "t1"
                  THEN TripVia(service, <<"A", "B">>,
                               <<TimeString(8, 0, 0), TimeString(8, 0, 2)>>)
                  ELSE TripVia("s2", <<"C", "A">>,
                               <<TimeString(9, 0, 0), TimeString(9, 30, 0)>>)]
         ELSE [t \in {"t2"} |->
                  TripVia("s2", <<"B", "C">>, <<TimeString(8, 0, 1), last>>)]] :
        service \in Services,
        last \in {TimeString(25, 0, 0), TimeString(9, 0, 0)}}

PanelClocks == {<<8, 0, 1>>, <<23, 59, 59>>}

InitPanel ==
    /\ stopsCache = LocatorStops
    /\ routesCache = LocatorRoutes
    /\ timetablesCache \in PanelTimetables
    /\ shapesCache = EmptyMap
    /\ calendarCache \in {c \in LocatorCalendars :
                             "s1" \in DOMAIN c => c["s1"].days[1] = "1"}
    /\ extraCache = [offices |-> EmptyMap, calendar_dates |-> <<>>]
    /\ \E hms \in PanelClocks : now = [date |-> <<2024, 1, 3>>, hms |-> hms]
    /\ client = FreshClient
    /\ request = NoQuery
    /\ op = NoOp
    /\ ret = FALSE

\* what an operation without a result leaves
Void == [kind |-> "void"]

\* BusPanel's timer: at mount and every 2 seconds
ClientUpdateTime ==
    /\ client' = [client EXCEPT !.currentTime = ClockString]
    /\ op' = [name |-> "updateTime", args |-> <<>>]
    /\ ret' = Void
    /\ UNCHANGED <<snapshot, now, request>>

\* handleStopClick: a click is handled once the effects of the mount have
\* run; the change of selectedStopId starts the fetch of the stop's timetable,
\* and a selectedTrip that becomes null gives the map a new updateBuses, which
\* its effect runs
ClientSelectStop ==
    \E id \in DOMAIN stopsCache :
        /\ Len(client.currentTime) # 0
        /\ client' = [client EXCEPT !.selectedStopId = id,
                                    !.pending = client.pending \cup {id},
                                    !.selectedTrip = Null,
                                    !.busFetches =
                                        IF client.selectedTrip # Null
                                        THEN @ \cup {Null} ELSE @]
        /\ op' = [name |-> "handleStopClick", args |-> <<id>>]
        /\ ret' = Void
        /\ UNCHANGED <<snapshot, now, request>>

\* loadStopTimetable, from the arrival of the server's response on; setData
\* gives the map new data, and the map's effect runs updateBuses
ClientLoadStopTimetable ==
    \E id \in client.pending :
        LET timetableData == GetStopTimetable(id)
        IN  /\ client' = [client EXCEPT
                             !.timetables =
                                 IF timetableData.status = 200
                                 THEN Spread(client.timetables,
                                             timetableData.timetables)
                                 ELSE client.timetables,
                             !.pending = client.pending \ {id},
                             !.busFetches =
                                 IF timetableData.status = 200
                                 THEN @ \cup {client.selectedTrip} ELSE @]
            /\ op' = [name |-> "loadStopTimetable", args |-> <<id>>]
            /\ ret' = Void
            /\ UNCHANGED <<snapshot, now, request>>

ServerGetStopTimetable_KeepsFiltered ==
    \E stopID \in DOMAIN stopsCache \cup {"Z"} :
        /\ op' = [name |-> "GET /api/stops/timetable", args |-> <<stopID>>]
        /\ ret' = GetStopTimetable(stopID)
        /\ timetablesCache' = IF ret'.status = 200 THEN ret'.timetables
                              ELSE timetablesCache
        /\ UNCHANGED <<stopsCache, shapesCache, calendarCache, extraCache,
                       routesCache, now, client, request>>

\* the server answers the stop timetable of a stop of the table or of "Z",
\* which the table does not hold
ServerGetStopTimetable ==
    \E stopID \in DOMAIN stopsCache \cup {"Z"} :
        /\ op' = [name |-> "GET /api/stops/timetable", args |-> <<stopID>>]
        /\ ret' = GetStopTimetable(stopID)
        /\ UNCHANGED <<snapshot, now, client, request>>

NextPanel ==
    \/ ClientUpdateTime
    \/ ClientSelectStop
    \/ ClientLoadStopTimetable
    \/ ClientPanelData
    \/ ServerGetStopTimetable

SpecPanel == InitPanel /\ [][NextPanel]_vars

-----------------------------------------------------------------------------
(* Properties of the stop timetable.                                       *)

\* the client's timeToSec (TypeScript), for times of two or three fields
timeToSecClient(t) ==
    IF Len(t) = 0 THEN 0
    ELSE Atoi(t[1]) * 3600 + Atoi(t[2]) * 60 + (IF Len(t) >= 3 THEN Atoi(t[3]) ELSE 0)

PanelStop == op.args[1]

PanelTime == op.args[3]

\* the panel lists the arrivals of a stop the client knows
StopPanelCalled == PanelCalled /\ PanelStop \in DOMAIN stopsCache

\* the stop set of the panel: every stop of the selected stop's name below
\* zoom 16.5, the selected stop from there on
PanelStopSet ==
    IF op.args[2] < 165
    THEN {id \in DOMAIN stopsCache : stopsCache[id].name = stopsCache[PanelStop].name}
    ELSE {PanelStop}

\* the (route, trip, position) triples of the snapshot whose stop is in the
\* panel's stop set and whose service runs today
MatchingStopTimes ==
    {x \in UNION {{<<pair[1], pair[2], i>> :
                      i \in 1..Len(timetablesCache[pair[1]][pair[2]].stops)} :
                  pair \in TripPairs(timetablesCache)} :
        /\ timetablesCache[x[1]][x[2]].stops[x[3]].stop_id \in PanelStopSet
        /\ isServiceRunningToday(timetablesCache[x[1]][x[2]].service_id)}

ArrivalIs(a, x) ==
    /\ a.route_id = x[1]
    /\ a.trip_id = x[2]
    /\ a.actual_stop_id = timetablesCache[x[1]][x[2]].stops[x[3]].stop_id
    /\ a.time = timetablesCache[x[1]][x[2]].stops[x[3]].time

\* C13: once the selected stop's timetable has arrived, the panel lists one
\* arrival for every stop-time of the snapshot whose stop is in the stop set
\* and whose trip's service runs today, and nothing else: the union over the
\* co-named stops, also when a trip calls at more than one of them.
C13_UnionOfMatchingStopTimes ==
    (StopPanelCalled /\ client.pending = {}) =>
        /\ Len(ret.arrivals) = Cardinality(MatchingStopTimes)
        /\ \A x \in MatchingStopTimes :
              \E k \in 1..Len(ret.arrivals) : ArrivalIs(ret.arrivals[k], x)
        /\ \A k \in 1..Len(ret.arrivals) :
              \E x \in MatchingStopTimes : ArrivalIs(ret.arrivals[k], x)

\* C14: each trip contributes at most one arrival, the first entry of its
\* stop list whose stop is in the stop set; no two arrivals have the same
\* trip id and stop id.
C14_FirstMatchOncePerTrip ==
    StopPanelCalled =>
        /\ \A k \in 1..Len(ret.arrivals) :
              LET a     == ret.arrivals[k]
                  stops == client.timetables[a.route_id][a.trip_id].stops
              IN  \E i \in 1..Len(stops) :
                      /\ stops[i].stop_id \in PanelStopSet
                      /\ \A j \in 1..(i - 1) : stops[j].stop_id \notin PanelStopSet
                      /\ a.actual_stop_id = stops[i].stop_id
                      /\ a.time = stops[i].time
        /\ \A k, l \in 1..Len(ret.arrivals) :
              k # l =>
                  /\ ~(/\ ret.arrivals[k].route_id = ret.arrivals[l].route_id
                       /\ ret.arrivals[k].trip_id = ret.arrivals[l].trip_id)
                  /\ ~(/\ ret.arrivals[k].trip_id = ret.arrivals[l].trip_id
                       /\ ret.arrivals[k].actual_stop_id
                              = ret.arrivals[l].actual_stop_id)

\* a listed trip calls at two stops of the stop set and is listed at the first
C14_Witness ==
    /\ StopPanelCalled
    /\ PanelStopSet = {"A", "B"}
    /\ \E k \in 1..Len(ret.arrivals) :
          LET a     == ret.arrivals[k]
              stops == client.timetables[a.route_id][a.trip_id].stops
          IN  /\ stops[1].stop_id = "A" /\ stops[2].stop_id = "B"
              /\ a.actual_stop_id = "A"

\* C15: the arrivals are listed by time ascending; for zero-padded HH:MM:SS
\* times, hours of 24 and more included, each arrival's time in seconds is at
\* most the next one's.
C15_SortedBySeconds ==
    StopPanelCalled =>
        \A k \in 1..(Len(ret.arrivals) - 1) :
            timeToSecClient(ret.arrivals[k].time)
                <= timeToSecClient(ret.arrivals[k + 1].time)

\* an arrival after midnight is listed after one at 09:00:00
C15_Witness ==
    /\ StopPanelCalled
    /\ Len(ret.arrivals) = 2
    /\ ret.arrivals[1].time = TimeString(9, 0, 0)
    /\ ret.arrivals[2].time = TimeString(25, 0, 0)
    /\ ret.arrivals[1].trip_id = "t3"

\* C16: an arrival's is_past flag is true exactly when its time is earlier
\* than the panel's current time (time < currentTime), times of 24:00:00 and
\* later included, whatever the panel's current time holds.
C16_PastIffEarlier ==
    StopPanelCalled =>
        \A k \in 1..Len(ret.arrivals) :
            ret.arrivals[k].is_past
                <=> timeToSecClient(ret.arrivals[k].time) < timeToSecClient(PanelTime)

\* at 23:59:59 the arrival of 09:00:00 is past and the one of 25:00:00 is not
C16_Witness ==
    /\ StopPanelCalled
    /\ PanelTime = TimeString(23, 59, 59)
    /\ \E k, l \in 1..Len(ret.arrivals) :
          /\ ret.arrivals[k].time = TimeString(9, 0, 0) /\ ret.arrivals[k].is_past
          /\ ret.arrivals[l].time = TimeString(25, 0, 0) /\ ~ret.arrivals[l].is_past

-----------------------------------------------------------------------------
(* Properties of the endpoints' validation and of the trip detail.         *)

StopsSearchCalled == op.name = "GET /api/stops/search"

\* C17: for four numeric bounds the stop search returns exactly the stops of
\* the snapshot with minLat <= lat <= maxLat and minLng <= lng <= maxLng
\* (every such stop, no other, each under its own id), and a validation
\* error without any stops whenever minLat > maxLat or minLng > maxLng.
C17_ExactlyStopsInBounds ==
    (StopsSearchCalled /\ FourNumbers) =>
        IF MinLat > MaxLat \/ MinLng > MaxLng
        THEN /\ ret.status = 400
             /\ "stops" \notin DOMAIN ret
        ELSE /\ ret.status = 200
             /\ DOMAIN ret.stops =
                    {id \in DOMAIN stopsCache :
                        /\ MinLat <= stopsCache[id].lat /\ stopsCache[id].lat <= MaxLat
                        /\ MinLng <= stopsCache[id].lng /\ stopsCache[id].lng <= MaxLng}
             /\ \A id \in DOMAIN ret.stops : ret.stops[id] = stopsCache[id]
             /\ ret.count = Cardinality(DOMAIN ret.stops)

\* two stops on the edges of the bounds are returned and the third is not
C17_Witness ==
    /\ StopsSearchCalled /\ FourNumbers
    /\ MinLat < MaxLat /\ MinLng < MaxLng
    /\ ret.status = 200
    /\ DOMAIN ret.stops = {"A", "B"}
    /\ stopsCache["A"].lat = MinLat /\ stopsCache["B"].lat = MaxLat
    /\ "D" \in DOMAIN stopsCache

\* the request carries at least one of the four bound parameters
BoundsPresent ==
    \/ Len(request.minLat) # 0 \/ Len(request.maxLat) # 0
    \/ Len(request.minLng) # 0 \/ Len(request.maxLng) # 0

\* a bound parameter that is supplied and is not a number
NonNumeric(text) == Len(text) # 0 /\ ParseFloat(text).err

\* the supplied bounds are malformed or inconsistent: one is not a number,
\* or a supplied minimum exceeds the supplied maximum of the same axis
BoundsInvalid ==
    \/ NonNumeric(request.minLat) \/ NonNumeric(request.maxLat)
    \/ NonNumeric(request.minLng) \/ NonNumeric(request.maxLng)
    \/ /\ ~ParseFloat(request.minLat).err /\ ~ParseFloat(request.maxLat).err
       /\ MinLat > MaxLat
    \/ /\ ~ParseFloat(request.minLng).err /\ ~ParseFloat(request.maxLng).err
       /\ MinLng > MaxLng

AllFourPresent ==
    /\ Len(request.minLat) # 0 /\ Len(request.maxLat) # 0
    /\ Len(request.minLng) # 0 /\ Len(request.maxLng) # 0

\* C18: whenever bounds are present in the request of the vehicle list,
\* non-numeric bounds, minLat > maxLat or minLng > maxLng yield a validation
\* error and no vehicle list, also when only some of the four bound
\* parameters are supplied.
C18_InvalidBoundsRejected ==
    (BusesCalled /\ BoundsPresent /\ BoundsInvalid) =>
        /\ ret.status = 400
        /\ "buses" \notin DOMAIN ret

\* C18, with all four parameters supplied: the validation is the stop
\* search's.
C18_InvalidBoundsRejectedWhenAllFour ==
    (BusesCalled /\ AllFourPresent /\ BoundsInvalid) =>
        /\ ret.status = 400
        /\ "buses" \notin DOMAIN ret

\* four bounds with minLat > maxLat are rejected
C18_Witness ==
    /\ BusesCalled /\ AllFourPresent /\ FourNumbers
    /\ MinLat > MaxLat
    /\ ret.status = 400

TripDetailCalled == op.name = "GET /api/trips"

DetailRoute == op.args[1]

DetailTrip == op.args[2]

KnownTrip ==
    /\ DetailRoute \in DOMAIN timetablesCache
    /\ DetailTrip \in DOMAIN timetablesCache[DetailRoute]

\* C19: the trip detail is NotFound when the route id is unknown and also
\* when the route is known but the trip id is not a trip of that route
\* (never an empty trip); for a known pair it is that trip together with
\* those of the trip's stops that exist in the stop table.
C19_NotFoundOrTripWithKnownStops ==
    TripDetailCalled =>
        IF KnownTrip
        THEN LET trip == timetablesCache[DetailRoute][DetailTrip]
             IN  /\ ret.status = 200
                 /\ ret.route_id = DetailRoute /\ ret.trip_id = DetailTrip
                 /\ ret.trip = trip
                 /\ DOMAIN ret.stops =
                        {id \in DOMAIN stopsCache :
                            \E i \in 1..Len(trip.stops) : trip.stops[i].stop_id = id}
                 /\ \A id \in DOMAIN ret.stops : ret.stops[id] = stopsCache[id]
        ELSE /\ ret.status = 404
             /\ "trip" \notin DOMAIN ret

\* a trip of another route is asked for under a known route
C19_Witness ==
    /\ TripDetailCalled
    /\ DetailRoute \in DOMAIN timetablesCache
    /\ DetailTrip \notin DOMAIN timetablesCache[DetailRoute]
    /\ \E r \in DOMAIN timetablesCache : DetailTrip \in DOMAIN timetablesCache[r]
    /\ ret.status = 404

\* a known trip is returned with two of its three stops, the third not
\* being in the stop table
C19_WitnessKnown ==
    /\ TripDetailCalled /\ KnownTrip
    /\ Len(ret.trip.stops) = 3
    /\ DOMAIN ret.stops = {"A", "B"}

\* loadTripDetail's merge of the shape into data.shapes:
\* shapes: detail.shape ? { ...prev.shapes, [patternKey]: detail.shape }
\*                      : prev.shapes
\* (an object is truthy whatever its fields hold)
loadTripDetailShapes(prevShapes, detail) ==
    IF ~detail.shape.null
    THEN Spread(prevShapes, PatternKey(detail.trip.stops) :> detail.shape)
    ELSE prevShapes

\* drawRouteLine: a "route" source is added unless data.shapes has no shape
\* under the trip's pattern key (if (!shape) return)
drawRouteLine(shapes, trip) ==
    LET patternKey == PatternKey(trip.stops)
    IN  HasKey(shapes, patternKey) /\ ~shapes[patternKey].null

\* the known trip asked for has no shape under its pattern key
ShapeAbsent ==
    /\ KnownTrip
    /\ ~HasKey(shapesCache, PatternKey(timetablesCache[DetailRoute][DetailTrip].stops))

\* C20: the trip detail of a known trip whose pattern key has no entry in
\* the geometry index carries a null shape, so that the client, which tests
\* the shape for null, draws no route line for that trip.
C20_AbsentShapeIsNull ==
    (TripDetailCalled /\ ShapeAbsent) =>
        /\ ret.shape.null
        /\ ~drawRouteLine(loadTripDetailShapes(EmptyMap, ret), ret.trip)

\* C20, as the code has it: the shape of the answer is never null; for an
\* absent pattern key it is a shape without coordinates and stop indices,
\* which the client stores and hands to the map as the route's line.
C20_AbsentShapeIsZeroShape ==
    (TripDetailCalled /\ ShapeAbsent) =>
        /\ ~ret.shape.null
        /\ Len(ret.shape.coordinates) = 0
        /\ Len(ret.shape.stop_indices) = 0
        /\ drawRouteLine(loadTripDetailShapes(EmptyMap, ret), ret.trip)

-----------------------------------------------------------------------------
(* Properties of the server's stop timetable.                              *)

StopTimetableCalled == op.name = "GET /api/stops/timetable"

TimetableStop == op.args[1]

\* C21: the stop timetable is NotFound for a stop id absent from the stop
\* table; otherwise it holds trip T under route R if and only if T is a trip
\* of R whose stop list contains the stop id, whether or not T's service
\* runs today, and no route appears with an empty trip map.
C21_TripsCallingAtStop ==
    StopTimetableCalled =>
        IF TimetableStop \notin DOMAIN stopsCache
        THEN /\ ret.status = 404
             /\ "timetables" \notin DOMAIN ret
        ELSE /\ ret.status = 200
             /\ ret.stop_id = TimetableStop
             /\ ret.stop_name = stopsCache[TimetableStop].name
             /\ DOMAIN ret.timetables \subseteq DOMAIN timetablesCache
             /\ \A r \in DOMAIN timetablesCache : \A t \in DOMAIN timetablesCache[r] :
                    (r \in DOMAIN ret.timetables /\ t \in DOMAIN ret.timetables[r])
                        <=> \E i \in 1..Len(timetablesCache[r][t].stops) :
                                timetablesCache[r][t].stops[i].stop_id = TimetableStop
             /\ \A r \in DOMAIN ret.timetables :
                    /\ DOMAIN ret.timetables[r] # {}
                    /\ DOMAIN ret.timetables[r] \subseteq DOMAIN timetablesCache[r]
                    /\ \A t \in DOMAIN ret.timetables[r] :
                           ret.timetables[r][t] = timetablesCache[r][t]

\* the timetable of pole A holds a trip whose service does not run today,
\* and not the route that has no trip calling at A
C21_Witness ==
    /\ StopTimetableCalled
    /\ TimetableStop = "A"
    /\ ret.status = 200
    /\ DOMAIN ret.timetables = {"r1"}
    /\ "r2" \in DOMAIN timetablesCache
    /\ "t1" \in DOMAIN ret.timetables["r1"]
    /\ ~isServiceRunningToday(ret.timetables["r1"]["t1"].service_id)

-----------------------------------------------------------------------------
(* Specification of the pattern key: two trips, which may or may not call  *)
(* at the same stops in the same order, and the shapes of some patterns    *)
(* are drawn at load; the server's locator, the trip detail and the        *)
(* client's interpolator then resolve a trip's shape.                      *)

\* the stop lists of the patterns
PatternStopLists == {<<"A", "B">>, <<"B", "A">>, <<"A", "B", "C">>}

\* trips of each pattern, leaving at 08:00:00 or at 08:00:01 and calling
\* every second, bound for "Sendai" or for "Izumi"
PatternTrips ==
    {[TripVia(service, ids, [i \in 1..Len(ids) |-> TimeString(8, 0, first + i)])
         EXCEPT !.headsign = headsign] :
        ids \in PatternStopLists, first \in {0, 1},
        headsign \in {"Sendai", "Izumi"}, service \in {"s2"}}

PatternTimetables ==
    {[r \in {"r1", "r2"} |-> IF r = "r1" THEN [t \in {"t1"} |-> a]
                             ELSE [t \in {"t2"} |-> b]] :
        a \in PatternTrips, b \in PatternTrips}

\* each pattern has its own shape, or none
PatternShapes ==
    LET ShapeOf(key) ==
            [coordinates  |-> CoordinatesOf(IF key = "A|B|C" THEN 3 ELSE 2),
             stop_indices |-> IF key = "A|B|C" THEN <<0, 1, 2>>
                              ELSE IF key = "A|B" THEN <<0, 1>> ELSE <<1, 0>>]
    IN  {[key \in keys |-> ShapeOf(key)] : keys \in SUBSET {"A|B", "B|A", "A|B|C"}}

InitPattern ==
    /\ stopsCache = LocatorStops
    /\ routesCache = LocatorRoutes
    /\ timetablesCache \in PatternTimetables
    /\ shapesCache \in PatternShapes
    /\ calendarCache \in {c \in LocatorCalendars : DOMAIN c = {"s2"}}
    /\ extraCache = [offices |-> EmptyMap, calendar_dates |-> <<>>]
    /\ now = [date |-> <<2024, 1, 3>>, hms |-> <<8, 0, 1>>]
    /\ client = FreshClient
    /\ request = NoQuery
    /\ op = NoOp
    /\ ret = FALSE

\* a map's lookup: the key and the entry found under it, if any
Lookup(shapes, patternKey) ==
    IF HasKey(shapes, patternKey)
    THEN [kind |-> "shape", key |-> patternKey, shape |-> shapes[patternKey]]
    ELSE [kind |-> "absent", key |-> patternKey]

\* calculateAllBusPositions: patternKey := strings.Join(stopIDs, "|"), and
\* calculateBusPosition's shapesCache[patternKey]
ServerLocatorLookup ==
    \E routeID \in DOMAIN timetablesCache :
      \E tripID \in DOMAIN timetablesCache[routeID] :
        /\ op' = [name |-> "locator shape", args |-> <<routeID, tripID>>]
        /\ ret' = Lookup(shapesCache,
                         PatternKey(timetablesCache[routeID][tripID].stops))
        /\ UNCHANGED <<snapshot, now, client, request>>

\* calculateBusPos: patternKey = trip.stops.map(...).join("|"), and
\* shapesData[patternKey]
ClientLookup ==
    \E routeID \in DOMAIN timetablesCache :
      \E tripID \in DOMAIN timetablesCache[routeID] :
        /\ op' = [name |-> "client shape", args |-> <<routeID, tripID>>]
        /\ ret' = Lookup(ClientData.shapes,
                         PatternKey(timetablesCache[routeID][tripID].stops))
        /\ UNCHANGED <<snapshot, now, client, request>>

NextPattern == ServerLocatorLookup \/ ClientLookup \/ ServerGetTripDetail

SpecPattern == InitPattern /\ [][NextPattern]_vars

-----------------------------------------------------------------------------
(* Properties of the pattern key.                                          *)

ShapeResolved == op.name \in {"locator shape", "client shape"}

\* the stop ids of a trip, in order
StopIdsOf(trip) == [i \in 1..Len(trip.stops) |-> trip.stops[i].stop_id]

\* the trips of the snapshot, as pairs of route id and trip id
SnapshotTrips ==
    {p \in (DOMAIN timetablesCache)
              \X UNION {DOMAIN timetablesCache[q] : q \in DOMAIN timetablesCache} :
        p[2] \in DOMAIN timetablesCache[p[1]]}

\* the trips of the snapshot other than the one asked for that call at the
\* same stops in the same order
SamePattern ==
    {p \in SnapshotTrips :
        /\ p # <<op.args[1], op.args[2]>>
        /\ StopIdsOf(timetablesCache[p[1]][p[2]])
               = StopIdsOf(timetablesCache[op.args[1]][op.args[2]])}

\* C22: the pattern key is a function of the ordered stop-id sequence only:
\* a trip with the same stop-id sequence as the trip asked for, whatever its
\* trip id, route, times and headsign, gets the same key and resolves to the
\* same shape, in the server's locator, in the client and in the trip detail.
C22_SameStopsSameKeyAndShape ==
    /\ ShapeResolved =>
          \A p \in SamePattern :
              ret = Lookup(shapesCache, PatternKey(timetablesCache[p[1]][p[2]].stops))
    /\ (TripDetailCalled /\ KnownTrip) =>
          \A p \in SamePattern :
              /\ ret.shape = GetTripDetail(p[1], p[2]).shape
              /\ PatternKey(ret.trip.stops)
                     = PatternKey(timetablesCache[p[1]][p[2]].stops)

\* two trips of different routes, times and headsigns call at A and B and
\* the shape of A|B is resolved for one of them
C22_Witness ==
    /\ ShapeResolved
    /\ SamePattern # {}
    /\ \E p \in SamePattern :
          /\ timetablesCache[p[1]][p[2]].stops[1].time
                 # timetablesCache[op.args[1]][op.args[2]].stops[1].time
          /\ timetablesCache[p[1]][p[2]].headsign
                 # timetablesCache[op.args[1]][op.args[2]].headsign
          /\ p[1] # op.args[1]
    /\ ret.kind = "shape"
    /\ ret.key = "A|B"

-----------------------------------------------------------------------------
(* Specification of the server: the snapshot is loaded and every endpoint  *)
(* is then queried in any order.                                           *)

\* c.JSON(http.StatusOK, table)
Ok(table) == [status |-> 200, body |-> table]

\* GET /api/stops
ServerGetStops ==
    /\ op' = [name |-> "GET /api/stops", args |-> <<>>]
    /\ ret' = Ok(stopsCache)
    /\ UNCHANGED <<snapshot, now, client, request>>

\* GET /api/calendar
ServerGetCalendar ==
    /\ op' = [name |-> "GET /api/calendar", args |-> <<>>]
    /\ ret' = Ok(calendarCache)
    /\ UNCHANGED <<snapshot, now, client, request>>

\* GET /api/routes
ServerGetRoutes ==
    /\ op' = [name |-> "GET /api/routes", args |-> <<>>]
    /\ ret' = Ok(routesCache)
    /\ UNCHANGED <<snapshot, now, client, request>>

\* GET /api/extra
ServerGetExtra ==
    /\ op' = [name |-> "GET /api/extra", args |-> <<>>]
    /\ ret' = Ok(extraCache)
    /\ UNCHANGED <<snapshot, now, client, request>>

NextServer ==
    \/ ServerGetStops
    \/ ServerGetStopsSearch
    \/ ServerGetBuses
    \/ ServerGetTripDetail
    \/ ServerGetStopTimetable
    \/ ServerGetCalendar
    \/ ServerGetRoutes
    \/ ServerGetExtra

SpecServer == InitEndpoints /\ [][NextServer]_vars

\* C23: after the snapshot is loaded no query (stop search, active vehicles
\* with or without bounds, trip detail, stop timetable, calendar, routes,
\* extra) changes any of the six snapshot tables, in any sequence of queries.
C23_SnapshotReadOnly ==
    [][/\ stopsCache' = stopsCache
       /\ timetablesCache' = timetablesCache
       /\ shapesCache' = shapesCache
       /\ calendarCache' = calendarCache
       /\ extraCache' = extraCache
       /\ routesCache' = routesCache]_vars

\* a query has been answered from the tables: the stop timetable of A holds
\* the trips of both routes
C23_Witness ==
    /\ StopTimetableCalled
    /\ TimetableStop = "A"
    /\ ret.status = 200
    /\ DOMAIN ret.timetables = DOMAIN timetablesCache
    /\ Cardinality(DOMAIN timetablesCache) = 2

-----------------------------------------------------------------------------
(* The Position Interpolator and stops with equal times.                   *)

\* every stop of the trip asked for has the same time
AllTimesEqual == \A i, j \in 1..Len(CalledStops) : StopSec(i) = StopSec(j)

\* C24: for no trip and no time of day does the interpolator divide by zero:
\* a pair of consecutive stops with equal times is never the containing
\* interval, and a trip all of whose stop times are equal yields none at
\* every time of day.
C24_NoDivisionByZero ==
    InterpolatorCalled =>
        /\ ret # DivisionByZero
        /\ LET i == FindInterval(CalledStops, CalledAt)
           IN  i # 0 => StopSec(i) # StopSec(i + 1)
        /\ AllTimesEqual => ret = None
        /\ AllTimesEqual => \A d \in {-1, 0, 1} : ResultAt(CalledAt + d) = None

\* a trip whose stops all have the time of day asked for, with a whole
\* shape, yields none
C24_Witness ==
    /\ InterpolatorCalled
    /\ AllTimesEqual
    /\ CalledAt = StopSec(1)
    /\ ShapePresent
    /\ Len(CalledShape.coordinates) > 0
    /\ Len(CalledShape.stop_indices) = Len(CalledStops)
    /\ ret = None

\* the first two stops have the time of day asked for and the third is
\* later: the position is taken from the second pair of stops
C24_WitnessLaterPair ==
    /\ op.name = "calculateBusPosition"
    /\ Len(CalledStops) = 3
    /\ StopSec(1) = CalledAt /\ StopSec(2) = CalledAt /\ StopSec(3) > CalledAt
    /\ ret.kind = "pos"

-----------------------------------------------------------------------------
(* The offline geometry builder: from the stop table and the patterns of   *)
(* the trips it generates a shape per pattern, applies the manual segment  *)
(* overrides and writes shapes.json.                                       *)

\* stopCoords: the table's entries of the pattern's stops, those missing
\* from the table left out
stopCoords(stopIds, stopsJson) ==
    LET found == SelectSeq(stopIds, LAMBDA id : HasKey(stopsJson, id))
    IN  [i \in 1..Len(found) |-> stopsJson[found[i]]]

\* the answers of the routing service a shape is generated from: a road
\* geometry, an answer whose code is not "Ok", or a failure of the request
RoutingAnswers == {"Ok", "NotOk", "error"}

\* a road geometry from the chunk's first stop to its last: a point per
\* hundredth of a degree of longitude
RoadGeometry(chunk) ==
    LET first == chunk[1]
        last  == chunk[Len(chunk)]
        step  == IF last.lng >= first.lng THEN 1 ELSE -1
        n     == (last.lng - first.lng) * step + 1
    IN  [k \in 1..n |-> <<first.lng + (k - 1) * step, first.lat + (k - 1) * step>>]

\* the coordinates of a pattern of at most chunkSize + 1 stops (one chunk):
\* the service's geometry, nothing, or the straight line through the stops
fullCoordinatesOf(chunk, answer) ==
    IF answer = "Ok" THEN RoadGeometry(chunk)
    ELSE IF answer = "NotOk" THEN <<>>
    ELSE [i \in 1..Len(chunk) |-> <<chunk[i].lng, chunk[i].lat>>]

SquaredDistance(p, stop) ==
    (p[1] - stop.lng) * (p[1] - stop.lng) + (p[2] - stop.lat) * (p[2] - stop.lat)

\* the first index from searchStart on (0-based) that is closest to the
\* stop; 0 when there is none
closestIdx(fullCoordinates, stop, searchStart) ==
    LET candidates == searchStart..(Len(fullCoordinates) - 1)
        d(i) == SquaredDistance(fullCoordinates[i + 1], stop)
    IN  IF candidates = {} THEN 0
        ELSE CHOOSE i \in candidates :
                 \A j \in candidates : d(i) < d(j) \/ (d(i) = d(j) /\ i <= j)

RECURSIVE stopIndicesOf(_, _, _)
\* stopCoords.forEach: each stop's index is searched from the previous
\* stop's index on
stopIndicesOf(coords, fullCoordinates, stopIndices) ==
    IF Len(coords) = 0 THEN stopIndices
    ELSE LET searchStart == IF Len(stopIndices) > 0
                            THEN stopIndices[Len(stopIndices)] ELSE 0
         IN  stopIndicesOf(Tail(coords), fullCoordinates,
                           Append(stopIndices,
                                  closestIdx(fullCoordinates, coords[1], searchStart)))

\* the body of the generation loop for a pattern without a manual or an
\* existing shape; "skip" when fewer than two of its stops are in the table
generateShape(stopIds, stopsJson, answer) ==
    LET coords == stopCoords(stopIds, stopsJson)
    IN  IF Len(coords) < 2 THEN [kind |-> "skip"]
        ELSE LET fullCoordinates == fullCoordinatesOf(coords, answer)
             IN  [kind  |-> "shape",
                  shape |-> [coordinates  |-> fullCoordinates,
                             stop_indices |-> stopIndicesOf(coords, fullCoordinates,
                                                           <<>>)]]

\* Array.prototype.indexOf, 0-based; -1 when absent
IndexOf(seq, x) ==
    LET at == {i \in 1..Len(seq) : seq[i] = x}
    IN  IF at = {} THEN -1 ELSE (CHOOSE i \in at : \A j \in at : i <= j) - 1

\* Array.prototype.slice(from, to) for 0 <= from, 0 <= to
Slice(seq, from, to) ==
    SubSeq(seq, Min(from, Len(seq)) + 1, Min(to, Len(seq)))

\* one segment override applied to a pattern's shape.  A stop index read
\* past the end of stop_indices is undefined: slice(0, undefined) and
\* slice(NaN) both give the whole array, and no stop index is then shifted.
applySegmentOverride(current, stopIds, segment) ==
    LET startIndex == IndexOf(stopIds, segment.startId)
        endIndex   == IndexOf(stopIds, segment.endId)
    IN  IF ~(startIndex # -1 /\ endIndex # -1 /\ startIndex < endIndex) THEN current
        ELSE LET n    == Len(current.stop_indices)
                 head == IF startIndex < n
                         THEN Slice(current.coordinates, 0,
                                    current.stop_indices[startIndex + 1])
                         ELSE current.coordinates
                 tail == IF endIndex < n
                         THEN Slice(current.coordinates,
                                    current.stop_indices[endIndex + 1] + 1,
                                    Len(current.coordinates))
                         ELSE current.coordinates
                 diff == Len(segment.newCoords)
                             - (current.stop_indices[endIndex + 1]
                                    - current.stop_indices[startIndex + 1] + 1)
             IN  [coordinates  |-> head \o segment.newCoords \o tail,
                  stop_indices |->
                      [i \in 1..n |-> IF i - 1 >= endIndex
                                      THEN current.stop_indices[i] + diff
                                      ELSE current.stop_indices[i]]]

RECURSIVE applySegmentOverrides(_, _, _)
\* Object.entries(segmentOverrides).forEach, in the order of the entries
applySegmentOverrides(current, stopIds, segments) ==
    IF Len(segments) = 0 THEN current
    ELSE applySegmentOverrides(applySegmentOverride(current, stopIds, segments[1]),
                               stopIds, Tail(segments))

\* shapesToGenerate: the stop lists of the patterns of the timetables
shapesToGenerate(timetablesJson) ==
    {StopIdsOf(timetablesJson[p[1]][p[2]]) : p \in TripPairs(timetablesJson)}

\* patternKey.split("|"): the stop list the key was joined from
SplitKey(patternKey, stopLists) ==
    CHOOSE stopIds \in stopLists : Join(stopIds, "|") = patternKey

-----------------------------------------------------------------------------
(* Specification of the geometry builder: a stop table, which may lack a   *)
(* stop that the trips name, and the trips are drawn at load; the builder  *)
(* is run once, on a data directory without shapes.json and without        *)
(* manual shapes other than segment overrides.                             *)

\* three stops two hundredths of a degree apart
BuilderStops ==
    [id \in {"A", "B", "C"} |->
        [name     |-> "Central",
         yomi     |-> "",
         lat      |-> IF id = "A" THEN 3820 ELSE IF id = "B" THEN 3822 ELSE 3824,
         lng      |-> IF id = "A" THEN 14080 ELSE IF id = "B" THEN 14082 ELSE 14084,
         platform |-> ""]]

\* the whole table, the table without C and the table without B
BuilderStopTables ==
    {[id \in ids |-> BuilderStops[id]] : ids \in {{"A", "B", "C"}, {"A", "B"}, {"A", "C"}}}

BuilderTimetables ==
    {tt \in PatternTimetables :
        \A r \in DOMAIN tt : \A t \in DOMAIN tt[r] :
            /\ tt[r][t].headsign = "Sendai"
            /\ tt[r][t].stops[1].time = TimeString(8, 0, 1)}

\* manual_shapes.json: no entry, or one "start|...|end" entry without stop
\* indices, whose coordinates replace the segment from start to end
BuilderSegments ==
    {<<>>} \cup
    {<<[startId |-> ends[1], endId |-> ends[2], newCoords |-> CoordinatesOf(n)]>> :
        ends \in {<<"A", "B">>, <<"B", "C">>, <<"A", "C">>}, n \in {2, 4}}

InitBuilder ==
    /\ stopsCache \in BuilderStopTables
    /\ routesCache = LocatorRoutes
    /\ timetablesCache \in BuilderTimetables
    /\ shapesCache = EmptyMap
    /\ calendarCache \in {c \in LocatorCalendars : DOMAIN c = {"s2"}}
    /\ extraCache = [offices |-> EmptyMap, calendar_dates |-> <<>>]
    /\ now = [date |-> <<2024, 1, 3>>, hms |-> <<8, 0, 1>>]
    /\ client = FreshClient
    /\ request = NoQuery
    /\ op = NoOp
    /\ ret = FALSE

\* start: the generation loop over the patterns, the segment overrides and
\* the write of shapes.json
BuilderStart ==
    /\ shapesCache = EmptyMap
    /\ LET stopLists == shapesToGenerate(timetablesCache)
       IN  \E answers \in [stopLists -> RoutingAnswers], segments \in BuilderSegments :
             LET generated(stopIds) == generateShape(stopIds, stopsCache,
                                                     answers[stopIds])
                 written    == {stopIds \in stopLists :
                                   generated(stopIds).kind = "shape"}
                 shapesJson == [patternKey \in {Join(stopIds, "|") : stopIds \in written}
                                   |-> generated(SplitKey(patternKey, stopLists)).shape]
                 finalShapes ==
                     [patternKey \in DOMAIN shapesJson |->
                         applySegmentOverrides(shapesJson[patternKey],
                                               SplitKey(patternKey, stopLists),
                                               segments)]
             IN  /\ shapesCache' = finalShapes
                 /\ op' = [name |-> "start", args |-> <<answers, segments>>]
                 /\ ret' = [kind |-> "written", shapes |-> finalShapes]
                 /\ UNCHANGED <<stopsCache, timetablesCache, calendarCache,
                                extraCache, routesCache, now, client, request>>

NextBuilder == BuilderStart

SpecBuilder == InitBuilder /\ [][NextBuilder]_vars

-----------------------------------------------------------------------------
(* Properties of the geometry builder.                                     *)

BuilderRan == op.name = "start"

\* the stop list of a pattern of the timetables
PatternStops(patternKey) == SplitKey(patternKey, shapesToGenerate(timetablesCache))

\* the segment overrides of the run
RunSegments == op.args[2]

\* every stop of the pattern is in the stop table
AllStopsKnown(patternKey) ==
    \A i \in 1..Len(PatternStops(patternKey)) :
        PatternStops(patternKey)[i] \in DOMAIN stopsCache

\* C25: every shape the geometry builder writes has exactly as many stop
\* indices as its pattern has stops, and non-decreasing stop indices, for
\* generated shapes (patterns naming a stop missing from the stop table
\* included) and after the segment overrides.
C25_ShapeInvariant ==
    BuilderRan =>
        \A patternKey \in DOMAIN ret.shapes :
            /\ Len(ret.shapes[patternKey].stop_indices) = Len(PatternStops(patternKey))
            /\ NonDecreasing(ret.shapes[patternKey].stop_indices)

\* C25, for the shapes generated without overrides: the stop indices are
\* non-decreasing, and there is one per stop of the pattern when the stop
\* table holds every stop of the pattern.
C25_GeneratedShapeInvariant ==
    (BuilderRan /\ RunSegments = <<>>) =>
        \A patternKey \in DOMAIN ret.shapes :
            /\ NonDecreasing(ret.shapes[patternKey].stop_indices)
            /\ AllStopsKnown(patternKey) =>
                   Len(ret.shapes[patternKey].stop_indices)
                       = Len(PatternStops(patternKey))

\* C25, length: without overrides a pattern naming a stop that the table
\* lacks gets fewer stop indices than it has stops.
C25_MissingStopShortens ==
    BuilderRan =>
        \A patternKey \in DOMAIN ret.shapes :
            ~AllStopsKnown(patternKey) =>
                Len(ret.shapes[patternKey].stop_indices)
                    < Len(PatternStops(patternKey))

\* C25, order: after the segment overrides the stop indices of a pattern
\* all of whose stops are in the table are non-decreasing.
C25_OverridesKeepOrder ==
    BuilderRan =>
        \A patternKey \in DOMAIN ret.shapes :
            AllStopsKnown(patternKey) =>
                NonDecreasing(ret.shapes[patternKey].stop_indices)

-----------------------------------------------------------------------------
(* Specification of the two copies of the Calendar Resolver: a calendar    *)
(* entry, the exceptions, the clock's date and the zone of the browser's   *)
(* host are drawn at load; the server and the client then ask whether a    *)
(* service runs today.                                                     *)

\* <<start, end>>: 4 days around the clock's week; 20 days and 19 days in
\* January; 20 days and 19 days in March, across the night of 10 March
AgreementSpans ==
    { <<FormatYmd(<<2024, 1, 1>>), FormatYmd(<<2024, 1, 5>>)>>,
      <<FormatYmd(<<2024, 1, 3>>), FormatYmd(<<2024, 1, 23>>)>>,
      <<FormatYmd(<<2024, 1, 3>>), FormatYmd(<<2024, 1, 22>>)>>,
      <<FormatYmd(<<2024, 3, 1>>), FormatYmd(<<2024, 3, 21>>)>>,
      <<FormatYmd(<<2024, 3, 1>>), FormatYmd(<<2024, 3, 20>>)>> }

AgreementTables ==
    {EmptyMap} \cup
    {[s \in {"s1"} |-> [days |-> p, start |-> se[1], end |-> se[2]]] :
        p \in DayPatterns, se \in AgreementSpans}

InitAgreement ==
    /\ stopsCache = EmptyMap
    /\ timetablesCache = EmptyMap
    /\ shapesCache = EmptyMap
    /\ routesCache = EmptyMap
    /\ calendarCache \in AgreementTables
    /\ \E dates \in SeqsUpTo(CalendarDateExceptions, 1) :
          extraCache = [offices |-> EmptyMap, calendar_dates |-> dates]
    /\ \E d \in TodayDates : now = [date |-> d, hms |-> Midnight]
    /\ \E zone \in HostZones : client = [FreshClient EXCEPT !.zone = zone]
    /\ request = NoQuery
    /\ op = NoOp
    /\ ret = FALSE

SpecAgreement == InitAgreement /\ [][NextCalendar]_vars

\* what the two copies answer for the asked service in this state
ServerAnswer == isServiceRunningToday(AskedService)

ClientAnswer == isServiceRunningTodayClient(AskedService, calendarCache, extraCache)

\* C26: the client's and the server's copy of the Calendar Resolver agree:
\* for every service id, date, calendar table of entries with 7 flags and
\* well-formed start and end dates, and exception list, they return the same
\* boolean.
C26_ClientAndServerAgree ==
    ResolverCalled =>
        /\ ServerAnswer = ClientAnswer
        /\ ret = ServerAnswer
        /\ ret = ClientAnswer

\* C26, on a host whose zone has a fixed offset from UTC.
C26_AgreeAtFixedOffset ==
    (ResolverCalled /\ client.zone = "Asia/Tokyo") =>
        /\ ServerAnswer = ClientAnswer
        /\ ret = ServerAnswer
        /\ ret = ClientAnswer

\* C26, exactly where the copies differ: the clock's date is outside an
\* entry's dates, which are 20 days apart as dates and less than 20 times
\* 24 hours apart as local midnights of the host.
C26_DifferOnlyAcrossClockChange ==
    (ResolverCalled /\ ServerAnswer # ClientAnswer) =>
        /\ ExceptionsToday = {}
        /\ HasKey(calendarCache, AskedService)
        /\ ~WithinBounds
        /\ SpanDays = 20
        /\ LocalMidnight(ParseYmd(AskedEntry.end))
               - LocalMidnight(ParseYmd(AskedEntry.start)) < 20 * 86400
        /\ ServerAnswer /\ ~ClientAnswer

-----------------------------------------------------------------------------
(* The server's Position Interpolator and shapes with too few stop         *)
(* indices.                                                                *)

ServerInterpolatorCalled == op.name = "calculateBusPosition"

\* the shape of the trip asked for has fewer stop indices than the trip has
\* stops, and at least one
ShortStopIndices ==
    /\ ShapePresent
    /\ Len(CalledShape.coordinates) > 0
    /\ Len(CalledShape.stop_indices) > 0
    /\ Len(CalledShape.stop_indices) < Len(CalledStops)

\* C27: the server's interpolator never reads stop_indices or coordinates
\* outside their bounds, for every trip and every shape of the index, a shape
\* with fewer stop indices than the trip has stops included: such data
\* yields none, not a failure.
C27_NoReadOutOfBounds ==
    ServerInterpolatorCalled =>
        /\ ret # Panic
        /\ ShortStopIndices => ret = None

\* C27, for shapes with a stop index per stop: no read outside the bounds.
C27_NoReadOutOfBoundsWhenComplete ==
    (/\ ServerInterpolatorCalled
     /\ ShapePresent
     /\ Len(CalledShape.stop_indices) >= Len(CalledStops))
        => ret # Panic

\* C27, where the read fails: the containing interval's second stop has no
\* stop index.
C27_PanicsExactlyPastTheIndices ==
    ServerInterpolatorCalled =>
        (ret = Panic <=>
            /\ ShortStopIndices
            /\ FindInterval(CalledStops, CalledAt) + 1 > Len(CalledShape.stop_indices))

-----------------------------------------------------------------------------
(* The search history: a list of stop ids kept in the browser's            *)
(* localStorage as JSON text.  A text is modelled by its tokens.           *)

HISTORY_KEY == "bus_search_history"

\* history.slice(0, 5)
HistoryLimit == 5

\* the stop ids that are searched for
HistoryStops == {"A", "B", "C", "D", "E", "F"}

\* a string's JSON text
Quote(id) == "\"" \o id \o "\""

\* JSON.stringify of an array of strings: [ "a" , "b" ]
JsonStringify(list) ==
    <<"[">> \o [k \in 1..(IF Len(list) = 0 THEN 0 ELSE 2 * Len(list) - 1) |->
                   IF k % 2 = 1 THEN Quote(list[(k + 1) \div 2]) ELSE ","]
            \o <<"]">>

\* JSON.parse of the text of an array of stop ids; err for any other text
JsonParse(text) ==
    LET inner == SubSeq(text, 2, Len(text) - 1)
        ok    == /\ Len(text) >= 2
                 /\ text[1] = "[" /\ text[Len(text)] = "]"
                 /\ Len(inner) = 0 \/ Len(inner) % 2 = 1
                 /\ \A k \in 1..Len(inner) :
                        IF k % 2 = 1 THEN \E id \in HistoryStops : inner[k] = Quote(id)
                        ELSE inner[k] = ","
    IN  IF ~ok THEN [err |-> TRUE, value |-> <<>>]
        ELSE [err   |-> FALSE,
              value |-> [i \in 1..((Len(inner) + 1) \div 2) |->
                            CHOOSE id \in HistoryStops : Quote(id) = inner[2 * i - 1]]]

\* JSON.parse(localStorage.getItem(HISTORY_KEY) || "[]"), [] when it throws
getSearchHistory(localStorage) ==
    LET text   == IF HasKey(localStorage, HISTORY_KEY)
                  THEN localStorage[HISTORY_KEY] ELSE <<"[", "]">>
        parsed == JsonParse(text)
    IN  IF parsed.err THEN <<>> ELSE parsed.value

\* localStorage.setItem(key, text)
SetItem(localStorage, key, text) == Spread(localStorage, key :> text)

saveSearchHistory_NoFilter(localStorage, stopId) ==
    LET history == getSearchHistory(localStorage)
        added   == <<stopId>> \o history
    IN  SetItem(localStorage, HISTORY_KEY,
                JsonStringify(SubSeq(added, 1, Min(HistoryLimit, Len(added)))))

saveSearchHistory(localStorage, stopId) ==
    LET history  == getSearchHistory(localStorage)
        filtered == SelectSeq(history, LAMBDA id : id # stopId)
        added    == <<stopId>> \o filtered
    IN  SetItem(localStorage, HISTORY_KEY,
                JsonStringify(SubSeq(added, 1, Min(HistoryLimit, Len(added)))))

removeFromSearchHistory(localStorage, stopId) ==
    LET history  == getSearchHistory(localStorage)
        filtered == SelectSeq(history, LAMBDA id : id # stopId)
    IN  SetItem(localStorage, HISTORY_KEY, JsonStringify(filtered))

-----------------------------------------------------------------------------
(* Specification of the search history: the browser starts without a       *)
(* stored history; stops are then saved to it, removed from it and the     *)
(* history is read, in any order.                                          *)

InitHistory ==
    /\ stopsCache = EmptyMap
    /\ timetablesCache = EmptyMap
    /\ shapesCache = EmptyMap
    /\ routesCache = EmptyMap
    /\ calendarCache = EmptyMap
    /\ extraCache = [offices |-> EmptyMap, calendar_dates |-> <<>>]
    /\ now = [date |-> <<2024, 1, 3>>, hms |-> Midnight]
    /\ client = FreshClient
    /\ request = NoQuery
    /\ op = NoOp
    /\ ret = FALSE

ClientGetSearchHistory ==
    /\ op' = [name |-> "getSearchHistory", args |-> <<>>]
    /\ ret' = [kind |-> "history", ids |-> getSearchHistory(client.localStorage)]
    /\ UNCHANGED <<snapshot, now, client, request>>

ClientSaveSearchHistory ==
    \E stopId \in HistoryStops :
        /\ client' = [client EXCEPT
                         !.localStorage = saveSearchHistory(client.localStorage, stopId)]
        /\ op' = [name |-> "saveSearchHistory", args |-> <<stopId>>]
        /\ ret' = Void
        /\ UNCHANGED <<snapshot, now, request>>

ClientRemoveFromSearchHistory ==
    \E stopId \in HistoryStops :
        /\ client' = [client EXCEPT
                         !.localStorage =
                             removeFromSearchHistory(client.localStorage, stopId)]
        /\ op' = [name |-> "removeFromSearchHistory", args |-> <<stopId>>]
        /\ ret' = Void
        /\ UNCHANGED <<snapshot, now, request>>

NextHistory ==
    \/ ClientGetSearchHistory
    \/ ClientSaveSearchHistory
    \/ ClientRemoveFromSearchHistory

SpecHistory == InitHistory /\ [][NextHistory]_vars

-----------------------------------------------------------------------------
(* Properties of the search history.                                       *)

\* the stored history, as a reader of localStorage finds it
StoredHistory ==
    IF HasKey(client.localStorage, HISTORY_KEY)
    THEN JsonParse(client.localStorage[HISTORY_KEY])
    ELSE [err |-> FALSE, value |-> <<>>]

DuplicateFree(seq) == \A i, j \in 1..Len(seq) : seq[i] = seq[j] => i = j

\* the list without the id, the others in their order
Without(seq, id) == SelectSeq(seq, LAMBDA x : x # id)

HistoryWellFormed ==
    /\ ~StoredHistory.err
    /\ DuplicateFree(StoredHistory.value)
    /\ Len(StoredHistory.value) <= 5
    /\ op.name = "saveSearchHistory" =>
           /\ Len(StoredHistory.value) >= 1
           /\ StoredHistory.value[1] = op.args[1]
    /\ op.name = "removeFromSearchHistory" =>
           \A i \in 1..Len(StoredHistory.value) : StoredHistory.value[i] # op.args[1]
    /\ op.name = "getSearchHistory" => ret.ids = StoredHistory.value

\* a removal leaves the other ids in their order; a save puts the id before
\* the others, which keep their order, the last one dropped beyond 5
HistoryStep ==
    /\ op'.name = "removeFromSearchHistory" =>
           StoredHistory'.value = Without(StoredHistory.value, op'.args[1])
    /\ op'.name = "saveSearchHistory" =>
           LET kept == Without(StoredHistory.value, op'.args[1])
           IN  Tail(StoredHistory'.value) = SubSeq(kept, 1, Min(4, Len(kept)))

\* C28: starting from an empty search history, after any sequence of saves
\* and removals the stored history is a duplicate-free list of at most 5 stop
\* ids whose first element, right after saveSearchHistory(id), is id;
\* removeFromSearchHistory(id) leaves id absent and the order of the other
\* ids unchanged.
C28_HistoryBoundedDuplicateFree == [](HistoryWellFormed) /\ [][HistoryStep]_vars

\* a sixth stop is saved to a history of five: the oldest is dropped
C28_Witness ==
    /\ op.name = "saveSearchHistory"
    /\ op.args[1] = "F"
    /\ ~StoredHistory.err
    /\ StoredHistory.value = <<"F", "E", "D", "C", "B">>

-----------------------------------------------------------------------------
(* Specification of the selection: the user selects trips and stops and    *)
(* closes the panel; the trip detail of each selection is fetched, and the *)
(* map fetches the vehicles in view and keeps one marker per trip. The     *)
(* responses arrive in any order.                                          *)

\* the most trip detail fetches in flight at once
MaxInFlight == 2

\* App's PanelTrip of handleBusClick(tripId, routeId), without its highlightId
PanelTrip(tripId, routeId) == [tripId |-> tripId, routeId |-> routeId]

\* the BusPosition of a trip of the snapshot: its trip_id and route_id
BusPositions ==
    {[trip_id |-> p[2], route_id |-> p[1]] : p \in TripPairs(timetablesCache)}

\* a fetch that throws: the network fails or the status is not 2xx
FetchFailed == [status |-> 0]

\* updateBuses from the arrival of the vehicles on, with the selectedTrip its
\* callback has captured: the keys of busMarkersRef after the run
updateBuses(busMarkers, selectedTrip, buses) ==
    LET tripIds       == {bus.trip_id : bus \in buses}
        hidden        == IF selectedTrip # Null
                         THEN {tripId \in tripIds : tripId # selectedTrip.tripId}
                         ELSE {}
        activeTripIds == tripIds \ hidden
        placed        == (busMarkers \ hidden) \cup activeTripIds
    IN  IF selectedTrip = Null
        THEN {tripId \in placed : tripId \in activeTripIds}
        ELSE placed

\* the snapshot of the endpoints with a single stop; the client has merged
\* every trip, its timer has ticked and the map's style is loaded
InitSelection ==
    /\ stopsCache = [id \in {"A"} |-> EndpointStops[id]]
    /\ routesCache = LocatorRoutes
    /\ timetablesCache = EndpointTimetables
    /\ shapesCache = EmptyMap
    /\ calendarCache \in {c \in LocatorCalendars : DOMAIN c = {"s2"}}
    /\ extraCache = [offices |-> [o \in {"o1"} |-> "Kasuminome"],
                     calendar_dates |-> <<>>]
    /\ now = [date |-> <<2024, 1, 3>>, hms |-> <<8, 0, 0>>]
    /\ client = [FreshClient EXCEPT !.timetables = timetablesCache,
                                    !.currentTime = ClockString]
    /\ request = NoQuery
    /\ op = NoOp
    /\ ret = FALSE

\* handleBusClick, from a marker of the map or a row of the panel: the new
\* selectedTrip starts the fetch of its detail and gives the map a new
\* updateBuses, which its effect runs
ClientHandleBusClick ==
    \E p \in TripPairs(timetablesCache) :
        LET trip == PanelTrip(p[2], p[1])
        IN  /\ Len(client.detailFetches) < MaxInFlight
            /\ client' = [client EXCEPT
                             !.selectedTrip = trip,
                             !.selectedStopId = "",
                             !.detailFetches = Append(@, trip),
                             !.busFetches = @ \cup {trip}]
            /\ op' = [name |-> "handleBusClick", args |-> <<trip>>]
            /\ ret' = Void
            /\ UNCHANGED <<snapshot, now, request>>

\* handleClosePanel, from the panel's close button, a click on the map or the
\* focus of the search box
ClientHandleClosePanel ==
    /\ client' = [client EXCEPT
                     !.selectedStopId = "",
                     !.selectedTrip = Null,
                     !.tripDetail = Null,
                     !.busFetches = IF client.selectedTrip # Null
                                    THEN @ \cup {Null} ELSE @]
    /\ op' = [name |-> "handleClosePanel", args |-> <<>>]
    /\ ret' = Void
    /\ UNCHANGED <<snapshot, now, request>>

\* loadTripDetail, from the end of fetchTripDetails on: any of the fetches in
\* flight ends, with the server's answer or with a failure; setData gives the
\* map new data, and the map's effect runs updateBuses
ClientLoadTripDetail ==
    \E i \in 1..Len(client.detailFetches) :
        LET selectedTrip == client.detailFetches[i]
            others       == [j \in 1..(Len(client.detailFetches) - 1) |->
                                client.detailFetches[IF j < i THEN j ELSE j + 1]]
        IN  \E detail \in {GetTripDetail(selectedTrip.routeId, selectedTrip.tripId),
                           FetchFailed} :
                /\ client' =
                       IF detail.status = 200
                       THEN [client EXCEPT
                                !.tripDetail = detail,
                                !.timetables =
                                    Spread(@, [r \in {detail.route_id} |->
                                        Spread(IF HasKey(@, r) THEN @[r]
                                               ELSE EmptyMap,
                                               [t \in {detail.trip_id} |->
                                                   detail.trip])]),
                                !.detailFetches = others,
                                !.busFetches = @ \cup {client.selectedTrip}]
                       ELSE [client EXCEPT !.tripDetail = Null,
                                           !.detailFetches = others]
                /\ op' = [name |-> "loadTripDetail", args |-> <<selectedTrip>>]
                /\ ret' = [kind |-> "detail", status |-> detail.status]
                /\ UNCHANGED <<snapshot, now, request>>

\* busInterval's tick or the end of a move of the map: the current updateBuses
\* starts a run
ClientUpdateBusesStart ==
    /\ client.selectedTrip \notin client.busFetches
    /\ client' = [client EXCEPT !.busFetches = @ \cup {client.selectedTrip}]
    /\ op' = [name |-> "updateBuses starts", args |-> <<client.selectedTrip>>]
    /\ ret' = Void
    /\ UNCHANGED <<snapshot, now, request>>

\* a run of updateBuses completes: the server has answered the vehicles in
\* view, any of the snapshot's trips
ClientUpdateBuses ==
    \E selectedTrip \in client.busFetches :
      \E buses \in SUBSET BusPositions :
        /\ client' = [client EXCEPT
                         !.busMarkers = updateBuses(@, selectedTrip, buses),
                         !.busFetches = @ \ {selectedTrip}]
        /\ op' = [name |-> "updateBuses", args |-> <<selectedTrip>>]
        /\ ret' = [kind |-> "buses", buses |-> buses]
        /\ UNCHANGED <<snapshot, now, request>>

\* a run of updateBuses whose fetch throws: the error is logged
ClientUpdateBusesFailed ==
    \E selectedTrip \in client.busFetches :
        /\ client' = [client EXCEPT !.busFetches = @ \ {selectedTrip}]
        /\ op' = [name |-> "updateBuses failed", args |-> <<selectedTrip>>]
        /\ ret' = Void
        /\ UNCHANGED <<snapshot, now, request>>

NextSelection ==
    \/ ClientHandleBusClick
    \/ ClientSelectStop
    \/ ClientHandleClosePanel
    \/ ClientLoadTripDetail
    \/ ClientUpdateBusesStart
    \/ ClientUpdateBuses
    \/ ClientUpdateBusesFailed

SpecSelection == InitSelection /\ [][NextSelection]_vars

-----------------------------------------------------------------------------
(* Properties of the bus markers.                                          *)

BusRunCompleted == op.name = "updateBuses"

ResponseTripIds == {bus.trip_id : bus \in ret.buses}

\* C29: while a trip is selected, after every completed updateBuses run the
\* marker cache holds markers of the selected trip only; while no trip is
\* selected, after every completed run the cached trip ids are those of the
\* run's response
C29_MarkersFollowSelection ==
    BusRunCompleted =>
        IF client.selectedTrip # Null
        THEN client.busMarkers \subseteq {client.selectedTrip.tripId}
        ELSE client.busMarkers = ResponseTripIds

\* C29, for the runs whose updateBuses is the current one: a run that has
\* captured the selected trip leaves markers of that trip only
C29_CurrentRunKeepsOnlySelected ==
    (BusRunCompleted /\ op.args[1] # Null /\ op.args[1] = client.selectedTrip) =>
        client.busMarkers \subseteq {client.selectedTrip.tripId}

\* C29, what a run does with a captured trip: of the trips of its response,
\* only the captured one keeps a marker
C29_RunHidesAnsweredOthers ==
    (BusRunCompleted /\ op.args[1] # Null) =>
        (client.busMarkers \cap ResponseTripIds) \subseteq {op.args[1].tripId}

\* C29, what a run does without a captured trip: the cached trip ids are those
\* of its response
C29_RunWithoutSelectionMirrorsResponse ==
    (BusRunCompleted /\ op.args[1] = Null) =>
        client.busMarkers = ResponseTripIds

\* a run that has captured t1 completes with t1 alone in view, and the marker
\* of t2 is still cached
C29_StaleMarkerReached ==
    /\ BusRunCompleted
    /\ client.selectedTrip = PanelTrip("t1", "r1")
    /\ op.args[1] = client.selectedTrip
    /\ ResponseTripIds = {"t1"}
    /\ client.busMarkers = {"t1", "t2"}

-----------------------------------------------------------------------------
(* Properties of the trip detail.                                          *)

NoDetailFetchInFlight == Len(client.detailFetches) = 0

\* C30: with no trip detail fetch in flight, a tripDetail shown for a
\* selectedTrip describes that trip, whatever the order of the responses
C30_DetailDescribesSelection ==
    (/\ NoDetailFetchInFlight
     /\ client.selectedTrip # Null
     /\ client.tripDetail # Null) =>
        /\ client.tripDetail.trip_id = client.selectedTrip.tripId
        /\ client.tripDetail.route_id = client.selectedTrip.routeId

\* C30, what a response does: the tripDetail it sets describes the selection
\* whose fetch it ends
C30_DetailDescribesFetchedSelection ==
    (op.name = "loadTripDetail" /\ ret.status = 200) =>
        /\ client.tripDetail.trip_id = op.args[1].tripId
        /\ client.tripDetail.route_id = op.args[1].routeId

\* t1 then t2 were selected and the response for t1 came last: the panel of
\* t2 shows the detail of t1
C30_OvertakenResponseReached ==
    /\ NoDetailFetchInFlight
    /\ op.name = "loadTripDetail"
    /\ client.selectedTrip = PanelTrip("t2", "r2")
    /\ client.tripDetail # Null
    /\ client.tripDetail.trip_id = "t1"

=============================================================================
